--------------------------- MODULE MCSettingsStore ---------------------------
EXTENDS SettingsStore

MCPages == [r \in Records |-> IF r = "profile" THEN 2 ELSE 1]
\* Save and restart, and an erase that lets the firmware go on; the menu has the others.
MCControls == {<<TRUE, FALSE, TRUE>>, <<FALSE, TRUE, FALSE>>}
=============================================================================

-------------------------------- MODULE Ota --------------------------------
(***************************************************************************)
(* The firmware update of src/ota.c as operators on one record: the POST   *)
(* hooks the HTTP server calls (begin, data, finished), the actions of     *)
(* /rest/ota_state (verify, apply, reset) and the state of the task that   *)
(* copies the staged image over the running one.                           *)
(*                                                                         *)
(* Bytes are units that belong to an image: a buffer or a flash sector is  *)
(* the set of the images its bytes come from, so two uploads that mix are  *)
(* told apart from one that is whole.  The checksum of an image is the     *)
(* image itself.                                                           *)
(***************************************************************************)
EXTENDS Integers

CONSTANTS
    Conns,        \* addresses of connection states (void * connection)
    Images,       \* images a client may upload
    Length,       \* the length of each image
    Plausible,    \* images whose vector table looks like firmware
    OldImage,     \* the firmware that runs at first
    SectorBytes,  \* OTA_SECTOR_BYTES
    Sectors,      \* sectors of the staging half of the flash
    NoConn,       \* NULL
    NoImage       \* a checksum that is no image's

ASSUME OtaAssumption ==
    /\ SectorBytes \in Nat \ {0}
    /\ Sectors \in Nat \ {0}
    /\ Length \in [Images -> Nat \ {0}]
    /\ OldImage \notin Images
    /\ NoConn \notin Conns
    /\ NoImage \notin Images

Sector == 0 .. Sectors - 1
Content == SUBSET (Images \union {OldImage})
ota_state_t == {"IDLE", "RECEIVING", "RECEIVED", "VERIFIED", "APPLYING", "ERROR"}
OTA_MAX_IMAGE_BYTES == SectorBytes * Sectors
SectorsOf(len) == {s \in Sector : s * SectorBytes < len}

\* The static variables of ota.c; stage is the upper half of the flash.
ota_init == [st |-> "IDLE", conn |-> NoConn, expected |-> 0, received |-> 0,
             buf |-> {}, fill |-> 0, index |-> 0, crc |-> NoImage,
             stage |-> [s \in Sector |-> {}]]

-----------------------------------------------------------------------------
\* An upload is refused while another one or an update is under way.
BusyApplyingOnly(o) == o.st = "APPLYING"   \* mutant: a second upload is let in
Busy(o) == o.st \in {"APPLYING", "RECEIVING"}
AnySize(len) == 0 < len   \* mutant: no upper bound
GoodSize(len) == 0 < len /\ len <= OTA_MAX_IMAGE_BYTES

httpd_post_begin(o, c, len) ==
    IF Busy(o) THEN o
    ELSE IF ~GoodSize(len) THEN [o EXCEPT !.st = "ERROR"]
    ELSE [o EXCEPT !.conn = c, !.st = "RECEIVING", !.expected = len, !.received = 0,
                   !.crc = NoImage, !.fill = 0, !.buf = {}, !.index = 0]

\* The sector number counts up whether or not the flash could be written.
flush_sector(o, ok) ==
    IF o.fill = 0 THEN o
    ELSE [o EXCEPT !.stage = IF ok THEN [@ EXCEPT ![o.index] = o.buf] ELSE @,
                   !.index = @ + 1, !.fill = 0, !.buf = {}]

\* n bytes of img fill the buffer; every full buffer becomes a sector.  bad is
\* the number of the flush that fails, 0 when none does.
Flushes(o, n) == (o.fill + n) \div SectorBytes
StoreBytes(o, img, n, bad) ==
    LET written == IF bad = 0 THEN Flushes(o, n) ELSE bad - 1
        origin(s) == IF s = o.index THEN o.buf \union {img} ELSE {img}
        stored == [o EXCEPT !.stage = [s \in Sector |->
                      IF s \in o.index .. o.index + written - 1 THEN origin(s) ELSE @[s]]]
        fill == (o.fill + n) % SectorBytes
    IN IF bad = 0
       THEN [stored EXCEPT !.index = @ + written, !.received = @ + n, !.fill = fill,
                           !.buf = IF fill = 0 THEN {}
                                   ELSE IF written = 0 THEN @ \union {img} ELSE {img}]
       ELSE [stored EXCEPT !.st = "ERROR", !.index = @ + bad, !.fill = 0, !.buf = {},
                           !.received = @ + bad * SectorBytes - o.fill]

Owns(o, c) == o.conn = c /\ o.st = "RECEIVING"
httpd_post_receive_data(o, c, img, n, bad) ==
    IF ~Owns(o, c) THEN o
    ELSE IF n > o.expected - o.received THEN [o EXCEPT !.st = "ERROR"]
    ELSE StoreBytes(o, img, n, bad)

httpd_post_finished(o, c, ok) ==
    LET flushed == flush_sector(o, ok)
        whole == (ok \/ o.fill = 0) /\ o.received = o.expected
        ended == IF ~Owns(o, c) THEN o
                 ELSE [flushed EXCEPT !.st = IF whole THEN "RECEIVED" ELSE "ERROR"]
    IN IF o.conn = c THEN [ended EXCEPT !.conn = NoConn] ELSE ended

-----------------------------------------------------------------------------
\* What the staging area holds is image x, all of it and nothing else.
Staged(o, x) == o.received = Length[x] /\ \A s \in SectorsOf(o.received) : o.stage[s] = {x}
staged_image_plausible(o, x) == o.received >= SectorBytes /\ x \in Plausible

\* mutant: reset does not spare an update that is being applied
OtaResetApplying(o) ==
    IF o.st = "RECEIVING" THEN o ELSE [o EXCEPT !.st = "IDLE", !.received = 0, !.expected = 0]
OtaReset(o) ==
    IF Busy(o) THEN o ELSE [o EXCEPT !.st = "IDLE", !.received = 0, !.expected = 0]
OtaVerify(o, crc) ==
    LET good == crc \in Images /\ Staged(o, crc)
    IN IF o.st # "RECEIVED" THEN o
       ELSE [o EXCEPT !.crc = IF good THEN crc ELSE NoImage,
                      !.st = IF good /\ staged_image_plausible(o, crc) THEN "VERIFIED" ELSE "ERROR"]
\* taskOk: whether the apply task could be created.
OtaApply(o, taskOk) ==
    IF o.st # "VERIFIED" THEN o
    ELSE [o EXCEPT !.st = IF taskOk THEN "APPLYING" ELSE "ERROR"]
=============================================================================

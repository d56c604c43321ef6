-------------------------- MODULE HttpServerProofs --------------------------
(***************************************************************************)
(* Safety of the upload and of the firmware that runs, for any number of   *)
(* connections, images and sectors, and any set of requests.               *)
(*                                                                         *)
(* The argument: a connection with body bytes to come is the owner of the  *)
(* upload (UploadAccounting is inductive as it stands, with types); the    *)
(* staging area changes only in RECEIVING, so what was verified is what    *)
(* the apply task copies (StagedIsVerified, TaskOwnsUpdate); and the       *)
(* sectors it has copied are those of the staging area (CopiedSoFar).      *)
(***************************************************************************)
EXTENDS HttpServer, FiniteSetTheorems, SequenceTheorems, WellFoundedInduction, TLAPS

\* Types, as far as the proofs need them.
OtaRecord ==
    [st : ota_state_t, conn : Conns \union {NoConn}, expected : Int, received : Int, buf : Content,
     fill : Nat, index : Int, crc : Images \union {NoImage}, stage : [Sector -> Content]]
HttpState == [left : Nat, handle : BOOLEAN, unsent : Nat, retries : Int, parts : Int]
ConnTypes ==
    /\ pcb \in [Conns -> {"free", "open", "closing"}]
    /\ hs \in [Conns -> HttpState]
    /\ image \in [Conns -> Images \union {NoImage}]
    /\ inflight \in [Conns -> Int]
OtaTypes ==
    /\ ota \in OtaRecord
    /\ running \in [Sector -> Content]
    /\ pos \in Nat

\* A connection waits for a body or sends a reply, never both.
Uploads ==
    \A c \in Conns : /\ hs[c].left > 0 => image[c] \in Images /\ ~hs[c].handle
                     /\ inflight[c] # 0 => hs[c].handle
Good(o) == \E x \in Plausible \cap Images : Staged(o, x)
StagedIsVerified == ota.st \in {"VERIFIED", "APPLYING"} => Good(ota)
TaskOwnsUpdate ==
    /\ apply \in {"started", "delay", "copy"} => ota.st = "APPLYING"
    /\ apply \in {"delay", "copy"} => length = ota.received
CopiedSoFar == apply = "copy" => \A s \in SectorsOf(length) : s < pos => running[s] = ota.stage[s]

ConnInv == ConnTypes /\ Uploads
Firmware == OtaTypes /\ StagedIsVerified /\ TaskOwnsUpdate /\ CopiedSoFar /\ RunningIsWhole
IInv == ConnInv /\ UploadAccounting /\ Firmware

-----------------------------------------------------------------------------
(* The operators of module Ota. *)

\* Division by the sector size stays within the natural numbers.
LEMMA Sizes == \A k \in Nat : k \div SectorBytes \in Nat /\ k % SectorBytes \in Nat
  BY OtaAssumption

\* The fields have their types, and one may be changed.
LEMMA Fields ==
  ASSUME NEW o \in OtaRecord
  PROVE  /\ o.st \in ota_state_t /\ o.conn \in Conns \union {NoConn} /\ o.expected \in Int
         /\ o.received \in Int /\ o.buf \in Content /\ o.fill \in Nat /\ o.index \in Int
         /\ o.crc \in Images \union {NoImage} /\ o.stage \in [Sector -> Content]
<1> HIDE DEF ota_state_t, Content
<1> QED
  BY DEF OtaRecord

LEMMA Changed ==
  ASSUME NEW o \in OtaRecord, NEW st \in ota_state_t
  PROVE  [o EXCEPT !.st = st] \in OtaRecord
<1> HIDE DEF ota_state_t, Content
<1> QED
  BY DEF OtaRecord

LEMMA States == {"IDLE", "RECEIVING", "RECEIVED", "VERIFIED", "APPLYING", "ERROR"} = ota_state_t
  BY DEF ota_state_t

\* A refused upload changes nothing; an accepted one belongs to its connection.
LEMMA Begin ==
  ASSUME NEW o \in OtaRecord, NEW c \in Conns, NEW len \in Nat
  PROVE  LET b == httpd_post_begin(o, c, len)
         IN  /\ b \in OtaRecord
             /\ Busy(o) => b = o
             /\ ~Busy(o) /\ ~GoodSize(len) => b.st = "ERROR"
             /\ ~Busy(o) /\ GoodSize(len) => Owns(b, c) /\ b.expected = len /\ b.received = 0
<1> DEFINE b == httpd_post_begin(o, c, len)
<1>1. CASE ~Busy(o) /\ ~GoodSize(len)
  <2>1. b = [o EXCEPT !.st = "ERROR"]
    BY <1>1 DEF httpd_post_begin
  <2>2. [o EXCEPT !.st = "ERROR"] \in OtaRecord
    BY States, Changed
  <2>3. b.st = "ERROR"
    BY <2>1 DEF OtaRecord
  <2> QED
    BY <1>1, <2>1, <2>2, <2>3
<1>2. CASE ~Busy(o) /\ GoodSize(len)
  <2>1. b = [st |-> "RECEIVING", conn |-> c, expected |-> len, received |-> 0, buf |-> {}, fill |-> 0,
             index |-> 0, crc |-> NoImage, stage |-> o.stage]
    BY <1>2 DEF httpd_post_begin, OtaRecord
  <2>2. b \in OtaRecord
    <3>1. {} \in Content
      BY DEF Content
    <3> HIDE DEF b
    <3> QED
      BY <2>1, <3>1, Fields, States DEF OtaRecord
  <2>3. b.st = "RECEIVING" /\ b.conn = c /\ b.expected = len /\ b.received = 0
    <3> HIDE DEF b
    <3> QED
      BY <2>1
  <2> QED
    BY <1>2, <2>2, <2>3 DEF Owns
<1>3. CASE Busy(o)
  BY <1>3 DEF httpd_post_begin
<1> QED
  BY <1>1, <1>2, <1>3

\* Bytes are taken from the owner only, and counted as long as all goes well.
LEMMA Receive ==
  ASSUME NEW o \in OtaRecord, NEW c \in Conns, NEW img \in Images, NEW n \in Nat,
         NEW bad \in 0 .. Flushes(o, n)
  PROVE  LET r == httpd_post_receive_data(o, c, img, n, bad)
         IN  /\ r \in OtaRecord
             /\ ~Owns(o, c) => r = o
             /\ Owns(o, c) => /\ r.conn = c /\ r.expected = o.expected
                              /\ r.st \in {"RECEIVING", "ERROR"}
                              /\ r.st = "RECEIVING" => r.received = o.received + n /\ n <= o.expected - o.received
<1> DEFINE r == httpd_post_receive_data(o, c, img, n, bad)
           written == IF bad = 0 THEN Flushes(o, n) ELSE bad - 1
           origin(s) == IF s = o.index THEN o.buf \union {img} ELSE {img}
           newStage == [s \in Sector |-> IF s \in o.index .. o.index + written - 1 THEN origin(s) ELSE o.stage[s]]
           fill == (o.fill + n) % SectorBytes
           newBuf == IF fill = 0 THEN {} ELSE IF written = 0 THEN o.buf \union {img} ELSE {img}
<1>1. o.fill + n \in Nat /\ fill \in Nat /\ Flushes(o, n) \in Nat
  BY Sizes DEF OtaRecord, Flushes
<1>2. o.buf \union {img} \in Content /\ {img} \in Content /\ {} \in Content
  BY DEF OtaRecord, Content
<1>3. newStage \in [Sector -> Content]
  BY <1>2 DEF OtaRecord
<1>4. newBuf \in Content
  BY <1>2
<1>5. CASE ~Owns(o, c)
  BY <1>5 DEF httpd_post_receive_data
<1>6. CASE Owns(o, c) /\ n > o.expected - o.received
  <2>1. r = [o EXCEPT !.st = "ERROR"]
    BY <1>6 DEF httpd_post_receive_data
  <2>2. r \in OtaRecord
    BY <2>1, States, Changed
  <2>3. r.conn = o.conn /\ r.expected = o.expected /\ r.st = "ERROR"
    BY <2>1 DEF OtaRecord
  <2> QED
    BY <2>2, <2>3, <1>6 DEF Owns
<1>7. CASE Owns(o, c) /\ ~(n > o.expected - o.received)
  <2>1. r = StoreBytes(o, img, n, bad)
    BY <1>7 DEF httpd_post_receive_data
  <2>2. CASE bad = 0
    <3>1. r = [[o EXCEPT !.stage = newStage] EXCEPT !.index = @ + written, !.received = @ + n,
                                                   !.fill = fill, !.buf = newBuf]
      BY <2>1, <2>2 DEF StoreBytes, OtaRecord
    <3> HIDE DEF newStage, newBuf, fill, r
    <3>2. written \in Int
      BY <1>1, <2>2
    <3> HIDE DEF written
    <3>3. r = [st |-> o.st, conn |-> o.conn, expected |-> o.expected, received |-> o.received + n,
               buf |-> newBuf, fill |-> fill, index |-> o.index + written, crc |-> o.crc, stage |-> newStage]
      BY <3>1 DEF OtaRecord
    <3>4. r \in OtaRecord
      BY <3>3, <3>2, <1>1, <1>3, <1>4, Fields DEF OtaRecord
    <3>5. r.conn = o.conn /\ r.expected = o.expected /\ r.st = o.st /\ r.received = o.received + n
      BY <3>3 DEF OtaRecord
    <3>6. n <= o.expected - o.received
      BY <1>7 DEF OtaRecord
    <3> QED
      BY <3>4, <3>5, <3>6, <1>7 DEF Owns, r
  <2>3. CASE bad # 0
    <3>1. r = [[o EXCEPT !.stage = newStage] EXCEPT !.st = "ERROR", !.index = @ + bad, !.fill = 0, !.buf = {},
                                                   !.received = @ + bad * SectorBytes - o.fill]
      BY <2>1, <2>3 DEF StoreBytes, OtaRecord
    <3>2. bad * SectorBytes \in Int /\ bad \in Int
      BY <1>1, OtaAssumption
    <3> HIDE DEF newStage, r
    <3>3. r = [st |-> "ERROR", conn |-> o.conn, expected |-> o.expected,
               received |-> o.received + bad * SectorBytes - o.fill, buf |-> {}, fill |-> 0,
               index |-> o.index + bad, crc |-> o.crc, stage |-> newStage]
      BY <3>1 DEF OtaRecord
    <3>4. r \in OtaRecord
      BY <3>3, <3>2, <1>2, <1>3, Fields, States DEF OtaRecord
    <3>5. r.conn = o.conn /\ r.expected = o.expected /\ r.st = "ERROR"
      BY <3>3 DEF OtaRecord
    <3> QED
      BY <3>4, <3>5, <1>7 DEF Owns, r
  <2> QED
    BY <2>2, <2>3
<1> QED
  BY <1>5, <1>6, <1>7

\* Writing the part of a sector that is left changes neither owner nor counts.
LEMMA Flushed ==
  ASSUME NEW o \in OtaRecord, NEW ok \in BOOLEAN
  PROVE  LET f == flush_sector(o, ok)
         IN f \in OtaRecord /\ f.st = o.st /\ f.conn = o.conn /\ f.expected = o.expected /\ f.received = o.received
<1> DEFINE f == flush_sector(o, ok)
           newStage == IF ok THEN [o.stage EXCEPT ![o.index] = o.buf] ELSE o.stage
<1>1. CASE o.fill = 0
  BY <1>1 DEF flush_sector
<1>2. CASE o.fill # 0
  <2>1. newStage \in [Sector -> Content]
    BY Fields
  <2>2. f = [o EXCEPT !.stage = newStage, !.index = o.index + 1, !.fill = 0, !.buf = {}]
    BY <1>2 DEF flush_sector, OtaRecord
  <2> HIDE DEF newStage
  <2>3. f = [st |-> o.st, conn |-> o.conn, expected |-> o.expected, received |-> o.received, buf |-> {},
             fill |-> 0, index |-> o.index + 1, crc |-> o.crc, stage |-> newStage]
    BY <2>2 DEF OtaRecord
  <2>4. f \in OtaRecord
    <3> HIDE DEF f
    <3>1. {} \in Content
      BY DEF Content
    <3> QED
      BY <2>1, <2>3, <3>1, Fields DEF OtaRecord
  <2>5. f.st = o.st /\ f.conn = o.conn /\ f.expected = o.expected /\ f.received = o.received
    <3> HIDE DEF f
    <3> QED
      BY <2>3
  <2> QED
    BY <2>4, <2>5
<1> QED
  BY <1>1, <1>2

\* The end of a connection: an upload of its own is over, one of another goes on.
LEMMA Finished ==
  ASSUME NEW o \in OtaRecord, NEW c \in Conns, NEW ok \in BOOLEAN
  PROVE  LET f == httpd_post_finished(o, c, ok)
         IN  /\ f \in OtaRecord
             /\ Owns(o, c) => f.st \in {"RECEIVED", "ERROR"}
             /\ o.conn # c => f = o
             /\ o.conn = c => f.conn = NoConn
             /\ ~Owns(o, c) => f.st = o.st /\ f.received = o.received /\ f.stage = o.stage
<1> DEFINE flushed == flush_sector(o, ok)
           whole == (ok \/ o.fill = 0) /\ o.received = o.expected
           end == IF whole THEN "RECEIVED" ELSE "ERROR"
           ended == IF ~Owns(o, c) THEN o ELSE [flushed EXCEPT !.st = end]
           f == httpd_post_finished(o, c, ok)
<1>1. end \in ota_state_t /\ end \in {"RECEIVED", "ERROR"}
  BY States
<1>2. ended \in OtaRecord /\ ended.conn = o.conn
  <2>1. CASE Owns(o, c)
    <3>1. flushed \in OtaRecord /\ flushed.conn = o.conn
      BY Flushed
    <3> HIDE DEF flushed, end
    <3>2. [flushed EXCEPT !.st = end] \in OtaRecord
      BY <3>1, <1>1, Changed
    <3>3. [flushed EXCEPT !.st = end].conn = flushed.conn
      BY <3>1 DEF OtaRecord
    <3> QED
      BY <2>1, <3>1, <3>2, <3>3
  <2> QED
    BY <2>1
<1>3. Owns(o, c) => ended.st \in {"RECEIVED", "ERROR"}
  <2>1. flushed \in OtaRecord
    BY Flushed
  <2> HIDE DEF flushed, end
  <2> QED
    BY <2>1, <1>1 DEF OtaRecord
<1>4. f = IF o.conn = c THEN [ended EXCEPT !.conn = NoConn] ELSE ended
  BY DEF httpd_post_finished
<1>5. ~Owns(o, c) => ended = o
  OBVIOUS
<1>6. o.conn # c => ~Owns(o, c)
  BY DEF Owns
<1> HIDE DEF ended
<1>7. /\ [ended EXCEPT !.conn = NoConn] \in OtaRecord
      /\ [ended EXCEPT !.conn = NoConn].conn = NoConn
      /\ [ended EXCEPT !.conn = NoConn].st = ended.st
      /\ [ended EXCEPT !.conn = NoConn].received = ended.received
      /\ [ended EXCEPT !.conn = NoConn].stage = ended.stage
  <2> HIDE DEF ota_state_t, Content
  <2> QED
    BY <1>2 DEF OtaRecord
<1> QED
  BY <1>2, <1>3, <1>4, <1>5, <1>6, <1>7

\* What an action of a connection may do to the updater: an update that was
\* verified, or is being applied, stays as it is, or is given up.
Spares(o, p) ==
    p.st \in {"VERIFIED", "APPLYING"} \/ o.st = "APPLYING" =>
        p.st = o.st /\ p.received = o.received /\ p.stage = o.stage

LEMMA Answer ==
  ASSUME NEW o \in OtaRecord, NEW params, NEW taskOk \in BOOLEAN,
         o.st \in {"VERIFIED", "APPLYING"} => Good(o)
  PROVE  LET r == http_rest_ota_state(o, params, taskOk)
         IN  /\ r \in OtaRecord
             /\ Busy(o) => r = o
             /\ r.st \in {"VERIFIED", "APPLYING"} => Good(r)
             /\ r.st = "RECEIVING" => r = o
             /\ r.st = "APPLYING" => o.st \in {"VERIFIED", "APPLYING"}
<1> DEFINE Fine(r) == /\ r \in OtaRecord
                      /\ Busy(o) => r = o
                      /\ r.st \in {"VERIFIED", "APPLYING"} => Good(r)
                      /\ r.st = "RECEIVING" => r = o
                      /\ r.st = "APPLYING" => o.st \in {"VERIFIED", "APPLYING"}
<1>1. Fine(o)
  OBVIOUS
<1>2. Fine(OtaReset(o))
  <2>1. CASE Busy(o)
    BY <2>1, <1>1 DEF OtaReset
  <2>2. CASE ~Busy(o)
    <3> DEFINE r == [st |-> "IDLE", conn |-> o.conn, expected |-> 0, received |-> 0, buf |-> o.buf,
                     fill |-> o.fill, index |-> o.index, crc |-> o.crc, stage |-> o.stage]
    <3>1. OtaReset(o) = r
      BY <2>2 DEF OtaReset, OtaRecord
    <3>2. r \in OtaRecord
      BY Fields, States DEF OtaRecord
    <3>3. r.st = "IDLE"
      OBVIOUS
    <3> HIDE DEF r
    <3> QED
      BY <2>2, <3>1, <3>2, <3>3
  <2> QED
    BY <2>1, <2>2
<1>3. ASSUME NEW x \in Images PROVE Fine(OtaVerify(o, x))
  <2>1. CASE o.st # "RECEIVED"
    BY <2>1, <1>1 DEF OtaVerify
  <2>2. CASE o.st = "RECEIVED"
    <3> DEFINE crc == IF Staged(o, x) THEN x ELSE NoImage
               st == IF Staged(o, x) /\ staged_image_plausible(o, x) THEN "VERIFIED" ELSE "ERROR"
               r == [st |-> st, conn |-> o.conn, expected |-> o.expected, received |-> o.received, buf |-> o.buf,
                     fill |-> o.fill, index |-> o.index, crc |-> crc, stage |-> o.stage]
    <3>1. OtaVerify(o, x) = r
      BY <2>2 DEF OtaVerify, OtaRecord
    <3>2. st \in ota_state_t /\ crc \in Images \union {NoImage}
      BY States
    <3>3. st = "VERIFIED" => Staged(o, x) /\ x \in Plausible
      BY DEF staged_image_plausible
    <3>4. st \in {"VERIFIED", "ERROR"}
      OBVIOUS
    <3> HIDE DEF st, crc
    <3>5. r \in OtaRecord
      BY <3>2, Fields DEF OtaRecord
    <3>6. r.st = st /\ r.received = o.received /\ r.stage = o.stage
      OBVIOUS
    <3> HIDE DEF r
    <3>7. st = "VERIFIED" => Good(r)
      BY <3>3, <3>6 DEF Good, Staged
    <3>8. ~Busy(o)
      BY <2>2 DEF Busy
    <3> QED
      BY <3>1, <3>4, <3>5, <3>6, <3>7, <3>8
  <2> QED
    BY <2>1, <2>2
<1>4. Fine(OtaApply(o, taskOk))
  <2>1. CASE o.st # "VERIFIED"
    BY <2>1, <1>1 DEF OtaApply
  <2>2. CASE o.st = "VERIFIED"
    <3> DEFINE st == IF taskOk THEN "APPLYING" ELSE "ERROR"
               r == [o EXCEPT !.st = st]
    <3>1. OtaApply(o, taskOk) = r
      BY <2>2 DEF OtaApply
    <3>2. st \in ota_state_t /\ st \in {"APPLYING", "ERROR"}
      BY States
    <3> HIDE DEF st
    <3>3. r \in OtaRecord
      BY <3>2, Changed
    <3>4. r.st = st /\ r.received = o.received /\ r.stage = o.stage
      BY DEF OtaRecord
    <3> HIDE DEF r
    <3>5. Good(r)
      BY <2>2, <3>4 DEF Good, Staged
    <3>6. ~Busy(o)
      BY <2>2 DEF Busy
    <3> QED
      BY <2>2, <3>1, <3>2, <3>3, <3>4, <3>5, <3>6
  <2> QED
    BY <2>1, <2>2
<1>5. \/ http_rest_ota_state(o, params, taskOk) \in {o, OtaReset(o), OtaApply(o, taskOk)}
      \/ \E x \in Images : http_rest_ota_state(o, params, taskOk) = OtaVerify(o, x)
  BY DEF http_rest_ota_state
<1> HIDE DEF Fine
<1>6. Fine(http_rest_ota_state(o, params, taskOk))
  BY <1>1, <1>2, <1>3, <1>4, <1>5
<1> QED
  BY <1>6 DEF Fine

-----------------------------------------------------------------------------
(* Closing and sending. *)

OthersKept(c) == \A d \in Conns \ {c} : hs'[d] = hs[d] /\ pcb'[d] = pcb[d]
Released(c) == ConnInv' /\ OthersKept(c) /\ hs'[c].left = 0

LEMMA FreshState == http_state_init \in HttpState /\ http_state_init.left = 0 /\ ~http_state_init.handle
  BY DEF http_state_init, HttpState

LEMMA Closed ==
  ASSUME ConnInv, NEW c \in Conns, http_close_conn(c)
  PROVE  Released(c)
<1>1. pcb' \in [Conns -> {"free", "open", "closing"}] /\ \A d \in Conns \ {c} : pcb'[d] = pcb[d]
  BY DEF http_close_conn, http_state_free, ConnInv, ConnTypes
<1>2. hs' = [hs EXCEPT ![c] = http_state_init] /\ image' = [image EXCEPT ![c] = NoImage]
      /\ inflight' = [inflight EXCEPT ![c] = 0]
  BY DEF http_close_conn, http_state_free
<1> QED
  BY <1>1, <1>2, FreshState DEF ConnInv, ConnTypes, Uploads, Released, OthersKept

LEMMA Sent ==
  ASSUME ConnInv, NEW c \in Conns, NEW h \in HttpState, NEW acked \in Int,
         h.handle, h.left = 0, http_send(c, h, acked)
  PROVE  Released(c)
<1>1. PICK n \in 0 .. h.unsent :
        IF n = h.unsent THEN http_close_conn(c)
        ELSE /\ hs' = [hs EXCEPT ![c] = [h EXCEPT !.unsent = @ - n]]
             /\ inflight' = [inflight EXCEPT ![c] = @ + n - acked]
             /\ image' = [image EXCEPT ![c] = NoImage]
             /\ pcb' = pcb
  BY DEF http_send, http_write
<1>2. CASE n = h.unsent
  BY <1>1, <1>2, Closed
<1>3. CASE n # h.unsent
  <2>1. h.unsent - n \in Nat
    BY <1>3 DEF HttpState
  <2> DEFINE k == [h EXCEPT !.unsent = @ - n]
  <2>2. k \in HttpState /\ k.left = 0 /\ k.handle
    BY <2>1 DEF HttpState
  <2>3. /\ hs' = [hs EXCEPT ![c] = k] /\ image' = [image EXCEPT ![c] = NoImage]
        /\ inflight' = [inflight EXCEPT ![c] = @ + n - acked] /\ pcb' = pcb
    BY <1>1, <1>3
  <2> HIDE DEF k
  <2>4. inflight' \in [Conns -> Int] /\ \A d \in Conns \ {c} : inflight'[d] = inflight[d]
    BY <2>3 DEF ConnInv, ConnTypes
  <2> QED
    BY <2>2, <2>3, <2>4 DEF ConnInv, ConnTypes, Uploads, Released, OthersKept
<1> QED
  BY <1>2, <1>3

LEMMA StateFields ==
  ASSUME NEW h \in HttpState
  PROVE  /\ \A b \in BOOLEAN : [h EXCEPT !.handle = b] \in HttpState
         /\ \A n \in Nat : /\ [h EXCEPT !.left = n] \in HttpState
                            /\ [h EXCEPT !.unsent = n] \in HttpState
                            /\ [h EXCEPT !.retries = n] \in HttpState
                            /\ [h EXCEPT !.parts = n] \in HttpState
  BY DEF HttpState

\* The state a handler starts to send from.
LEMMA Page ==
  ASSUME NEW h \in HttpState, NEW uri, h.left = 0
  PROVE  LET k == http_find_file(h, uri)
         IN k \in HttpState /\ k.handle /\ k.left = 0
<1> DEFINE units == PageLen[rest_get_handler(uri)]
<1>1. units \in Nat
  BY HttpAssumption DEF rest_get_handler
<1>2. http_find_file(h, uri) = [h EXCEPT !.handle = TRUE, !.unsent = units, !.retries = 0]
  BY DEF http_find_file, http_init_file
<1> HIDE DEF units
<1>3. [h EXCEPT !.handle = TRUE, !.unsent = units, !.retries = 0] \in HttpState
  <2> DEFINE k == [h EXCEPT !.handle = TRUE]
  <2>1. k \in HttpState
    BY StateFields
  <2> HIDE DEF k
  <2>2. [[k EXCEPT !.unsent = units] EXCEPT !.retries = 0] \in HttpState
    BY <1>1, <2>1, StateFields
  <2> QED
    BY <2>2 DEF k
<1>4. /\ [h EXCEPT !.handle = TRUE, !.unsent = units, !.retries = 0].handle
      /\ [h EXCEPT !.handle = TRUE, !.unsent = units, !.retries = 0].left = 0
  BY DEF HttpState
<1> QED
  BY <1>2, <1>3, <1>4

\* Another connection's upload goes on, and the owner's is accounted for, as long
\* as the updater is left as the owner knows it.
LEMMA AccountsKept ==
  ASSUME UploadAccounting, NEW c \in Conns, Released(c),
         \A d \in Conns \ {c} : Owns(ota, d) => ota' = ota
  PROVE  UploadAccounting'
  BY DEF UploadAccounting, Released, OthersKept, Owns

\* The firmware is safe as long as the updater spares it.
LEMMA FirmwareKept ==
  ASSUME Firmware, ota' \in OtaRecord, Spares(ota, ota'), UNCHANGED applyVars
  PROVE  Firmware'
<1> USE DEF Firmware
<1>1. OtaTypes'
  BY DEF OtaTypes, applyVars
<1>2. StagedIsVerified'
  BY DEF StagedIsVerified, Spares, Good, Staged
<1>3. TaskOwnsUpdate'
  BY DEF TaskOwnsUpdate, Spares, applyVars
<1>4. CopiedSoFar'
  BY DEF CopiedSoFar, TaskOwnsUpdate, Spares, applyVars
<1>5. RunningIsWhole'
  BY DEF RunningIsWhole, Idle, applyVars
<1> QED
  BY <1>1, <1>2, <1>3, <1>4, <1>5

-----------------------------------------------------------------------------
(* Receiving a body. *)

LEMMA OutcomesAreBooleans == \A tried, ok : ok \in Outcomes(tried) => ok \in BOOLEAN
  BY DEF Outcomes

\* The updater after the end of a connection.
LEMMA FinishedSpares ==
  ASSUME NEW o \in OtaRecord, NEW c \in Conns, NEW ok \in BOOLEAN
  PROVE  LET f == httpd_post_finished(o, c, ok)
         IN f \in OtaRecord /\ Spares(o, f) /\ (o.conn # c => f = o)
  BY Finished DEF Spares, Owns

LEMMA ReceiveSpares ==
  ASSUME NEW o \in OtaRecord, NEW c \in Conns, NEW img \in Images, NEW n \in Nat,
         NEW bad \in 0 .. Flushes(o, n)
  PROVE  Spares(o, httpd_post_receive_data(o, c, img, n, bad))
  BY Receive DEF Spares, Owns

LEMMA BeginSpares ==
  ASSUME NEW o \in OtaRecord, NEW c \in Conns, NEW len \in Nat
  PROVE  Spares(o, httpd_post_begin(o, c, len))
  BY Begin DEF Spares, Owns, Busy

\* Either the body goes on, counted alike on both sides, or the reply starts.
LEMMA Body ==
  ASSUME ConnInv, NEW o \in OtaRecord, NEW c \in Conns, NEW h \in HttpState, NEW img \in Images,
         NEW n \in 1 .. MaxSegment,
         pcb[c] = "open", ~h.handle, inflight[c] = 0, Owns(o, c), h.left = o.expected - o.received,
         http_post_rxpbuf(c, o, h, img, n)
  PROVE  /\ ConnInv' /\ OthersKept(c)
         /\ ota' \in OtaRecord /\ Spares(o, ota')
         /\ hs'[c].left > 0 => pcb'[c] = "open" /\ Owns(ota', c)
                              /\ ota'.expected - ota'.received = hs'[c].left
<1>1. PICK bad \in 0 .. Flushes(o, n) :
        LET received == httpd_post_receive_data(o, c, img, n, bad)
            left == IF ~Owns(received, c) \/ h.left < n THEN 0 ELSE h.left - n
        IN IF left = 0
           THEN /\ \E ok \in Outcomes(received.fill > 0) : ota' = httpd_post_finished(received, c, ok)
                /\ http_send(c, http_handle_post_finished(h), 0)
           ELSE /\ ota' = received
                /\ hs' = [hs EXCEPT ![c] = [h EXCEPT !.left = left]]
                /\ image' = [image EXCEPT ![c] = img]
                /\ UNCHANGED <<pcb, inflight>>
  BY DEF http_post_rxpbuf
<1> DEFINE received == httpd_post_receive_data(o, c, img, n, bad)
           left == IF ~Owns(received, c) \/ h.left < n THEN 0 ELSE h.left - n
<1>2. n \in Nat
  BY HttpAssumption
<1>3. /\ received \in OtaRecord /\ Spares(o, received)
      /\ received.conn = c /\ received.expected = o.expected
      /\ received.st = "RECEIVING" => received.received = o.received + n
  BY <1>2, Receive, ReceiveSpares
<1> HIDE DEF received
<1>4. CASE left = 0
  <2>1. PICK ok \in Outcomes(received.fill > 0) : ota' = httpd_post_finished(received, c, ok)
    BY <1>1, <1>4 DEF received
  <2>2. http_send(c, http_handle_post_finished(h), 0)
    BY <1>1, <1>4 DEF received
  <2>3. ota' \in OtaRecord /\ Spares(received, ota')
    BY <1>3, <2>1, OutcomesAreBooleans, FinishedSpares
  <2>4. Spares(o, ota')
    BY <1>3, <2>3 DEF Spares
  <2> DEFINE k == [h EXCEPT !.left = 0]
  <2>5. k \in HttpState /\ k.left = 0
    BY DEF HttpState
  <2>6. http_handle_post_finished(h) = http_find_file(k, "/rest/ota_state")
    BY DEF http_handle_post_finished
  <2> HIDE DEF k
  <2>7. Released(c)
    BY <2>2, <2>5, <2>6, Page, Sent
  <2> QED
    BY <2>3, <2>4, <2>7 DEF Released
<1>5. CASE left # 0
  <2>1. Owns(received, c) /\ left = h.left - n
    BY <1>5
  <2>2. /\ ota' = received
        /\ hs' = [hs EXCEPT ![c] = [h EXCEPT !.left = left]]
        /\ image' = [image EXCEPT ![c] = img]
        /\ UNCHANGED <<pcb, inflight>>
    BY <1>1, <1>5 DEF received
  <2>3. left \in Nat /\ left = received.expected - received.received
    BY <1>2, <1>3, <1>5, <2>1 DEF Owns, OtaRecord, HttpState
  <2> DEFINE k == [h EXCEPT !.left = left]
  <2> HIDE DEF left
  <2>4. k \in HttpState /\ k.left = left /\ ~k.handle
    BY <2>3 DEF HttpState
  <2>5. hs' = [hs EXCEPT ![c] = k]
    BY <2>2
  <2> HIDE DEF k
  <2>6. ConnInv' /\ OthersKept(c) /\ hs'[c].left = left
    BY <2>2, <2>4, <2>5 DEF ConnInv, ConnTypes, Uploads, OthersKept
  <2> QED
    BY <1>3, <2>1, <2>2, <2>3, <2>6
<1> QED
  BY <1>4, <1>5

-----------------------------------------------------------------------------
(* The actions of a connection. *)

LEMMA SparesItself == \A o : Spares(o, o)
  BY DEF Spares

\* A step that leaves the updater alone and frees, or keeps idle, a connection.
LEMMA QuietStep ==
  ASSUME IInv, NEW c \in Conns, Released(c), UNCHANGED <<ota, applyVars>>
  PROVE  IInv'
<1>1. UploadAccounting'
  BY AccountsKept DEF IInv
<1>2. Firmware'
  BY FirmwareKept, SparesItself DEF IInv, Firmware, OtaTypes
<1> QED
  BY <1>1, <1>2 DEF IInv, Released

\* A step that ends a connection and tells the updater, if it must know.
LEMMA EndStep ==
  ASSUME IInv, NEW c \in Conns, Released(c), UNCHANGED applyVars,
         NEW tried, NEW ok \in Outcomes(tried),
         ota' = IF hs[c].left > 0 THEN httpd_post_finished(ota, c, ok) ELSE ota
  PROVE  IInv'
<1>1. ota' \in OtaRecord /\ Spares(ota, ota') /\ (ota.conn # c => ota' = ota)
  BY FinishedSpares, SparesItself, OutcomesAreBooleans DEF IInv, Firmware, OtaTypes
<1>2. UploadAccounting'
  BY <1>1, AccountsKept DEF IInv, Owns
<1>3. Firmware'
  BY <1>1, FirmwareKept DEF IInv
<1> QED
  BY <1>2, <1>3 DEF IInv, Released

LEMMA AcceptStep ==
  ASSUME IInv, NEW c \in Conns, http_accept(c)
  PROVE  IInv'
<1>1. ConnInv'
  BY DEF http_accept, IInv, ConnInv, ConnTypes, Uploads
<1>2. UploadAccounting'
  BY DEF http_accept, IInv, ConnInv, ConnTypes, UploadAccounting
<1>3. Firmware'
  BY FirmwareKept, SparesItself DEF http_accept, IInv, Firmware, OtaTypes
<1> QED
  BY <1>1, <1>2, <1>3 DEF IInv

\* Only a number of the connection changes.
LEMMA CountStep ==
  ASSUME IInv, NEW c \in Conns, NEW h \in HttpState, h.left = hs[c].left, h.handle = hs[c].handle,
         hs' = [hs EXCEPT ![c] = h], UNCHANGED <<pcb, image, inflight, ota, applyVars>>
  PROVE  IInv'
<1>1. ConnInv'
  BY DEF IInv, ConnInv, ConnTypes, Uploads
<1>2. UploadAccounting'
  BY DEF IInv, ConnInv, ConnTypes, UploadAccounting
<1>3. Firmware'
  BY FirmwareKept, SparesItself DEF IInv, Firmware, OtaTypes
<1> QED
  BY <1>1, <1>2, <1>3 DEF IInv

LEMMA IncompleteStep ==
  ASSUME IInv, NEW c \in Conns, http_parse_incomplete(c)
  PROVE  IInv'
<1>1. CASE hs[c].parts < MaxParts
  <2> DEFINE h == [hs[c] EXCEPT !.parts = @ + 1]
  <2>1. hs' = [hs EXCEPT ![c] = h] /\ UNCHANGED <<pcb, image, inflight, ota, applyVars>>
    BY <1>1 DEF http_parse_incomplete
  <2>2. h \in HttpState /\ h.left = hs[c].left /\ h.handle = hs[c].handle
    BY DEF IInv, ConnInv, ConnTypes, HttpState
  <2> HIDE DEF h
  <2> QED
    BY <2>1, <2>2, CountStep
<1>2. CASE ~(hs[c].parts < MaxParts)
  BY <1>2, Closed, QuietStep DEF http_parse_incomplete, IInv
<1> QED
  BY <1>1, <1>2

LEMMA BadStep ==
  ASSUME IInv, NEW c \in Conns, NEW r \in Requests, http_parse_bad(c, r)
  PROVE  IInv'
  BY Closed, QuietStep DEF http_parse_bad, IInv

LEMMA FinStep ==
  ASSUME IInv, NEW c \in Conns, http_recv_fin(c)
  PROVE  IInv'
<1>1. Released(c)
  BY Closed DEF http_recv_fin, IInv
<1> QED
  BY <1>1, EndStep DEF http_recv_fin

LEMMA ErrStep ==
  ASSUME IInv, NEW c \in Conns, http_err(c)
  PROVE  IInv'
<1>1. Released(c)
  BY FreshState DEF http_err, http_state_free, IInv, ConnInv, ConnTypes, Uploads, Released, OthersKept
<1> QED
  BY <1>1, QuietStep DEF http_err, http_state_free

LEMMA SentStep ==
  ASSUME IInv, NEW c \in Conns, http_sent(c)
  PROVE  IInv'
<1> DEFINE h == [hs[c] EXCEPT !.retries = 0]
<1>1. h \in HttpState /\ h.handle /\ h.left = 0 /\ inflight[c] \in Int
  BY DEF http_sent, IInv, ConnInv, ConnTypes, Uploads, HttpState
<1>2. http_send(c, h, inflight[c])
  BY DEF http_sent
<1> HIDE DEF h
<1>3. Released(c)
  BY <1>1, <1>2, Sent DEF IInv
<1> QED
  BY <1>3, QuietStep DEF http_sent

LEMMA PollStep ==
  ASSUME IInv, NEW c \in Conns, http_poll(c)
  PROVE  IInv'
<1>1. CASE http_close_conn(c) /\ ota' = ota
  BY <1>1, Closed, QuietStep DEF http_poll, IInv
<1>2. CASE /\ http_close_conn(c)
           /\ \E ok \in Outcomes(hs[c].left > 0 /\ ota.fill > 0) :
                 ota' = IF hs[c].left > 0 THEN httpd_post_finished(ota, c, ok) ELSE ota
  <2>1. Released(c)
    BY <1>2, Closed DEF IInv
  <2> QED
    BY <1>2, <2>1, EndStep DEF http_poll
<1> DEFINE h == [hs[c] EXCEPT !.retries = @ + 1]
<1>3. h \in HttpState /\ h.left = hs[c].left /\ h.handle = hs[c].handle
  BY DEF IInv, ConnInv, ConnTypes, HttpState
<1>4. CASE ~hs[c].handle /\ hs' = [hs EXCEPT ![c] = h] /\ UNCHANGED <<pcb, image, inflight>> /\ ota' = ota
  <2> HIDE DEF h
  <2> QED
    BY <1>3, <1>4, CountStep DEF http_poll
<1>5. CASE hs[c].handle /\ http_send(c, h, 0) /\ ota' = ota
  <2> HIDE DEF h
  <2>1. h.left = 0 /\ h.handle
    BY <1>3, <1>5 DEF IInv, ConnInv, ConnTypes, Uploads, HttpState
  <2>2. Released(c)
    BY <1>3, <1>5, <2>1, Sent DEF IInv
  <2> QED
    BY <1>5, <2>2, QuietStep DEF http_poll
<1> QED
  BY <1>1, <1>2, <1>4, <1>5 DEF http_poll

LEMMA GetStep ==
  ASSUME IInv, NEW c \in Conns, NEW r \in Requests, http_parse_get(c, r)
  PROVE  IInv'
<1> DEFINE params == extract_uri_parameters(r.query)
<1>1. PICK taskOk \in BOOLEAN :
        /\ ota' = IF r.uri = "/rest/ota_state" THEN http_rest_ota_state(ota, params, taskOk) ELSE ota
        /\ apply' = IF ota'.st = "APPLYING" /\ ota.st = "VERIFIED" THEN "started" ELSE apply
  BY OutcomesAreBooleans DEF http_parse_get
<1> HIDE DEF params
<1>2. UNCHANGED <<pos, length, running>> /\ Idle /\ hs[c].left = 0 /\ ~hs[c].handle
  BY DEF http_parse_get, Parsing
<1>3. /\ ota' \in OtaRecord
      /\ Busy(ota) => ota' = ota
      /\ ota'.st \in {"VERIFIED", "APPLYING"} => Good(ota')
      /\ ota'.st = "APPLYING" => ota.st \in {"VERIFIED", "APPLYING"}
  BY <1>1, Answer DEF IInv, Firmware, OtaTypes, StagedIsVerified
<1>4. Released(c)
  <2> DEFINE h == [http_find_file(hs[c], r.uri) EXCEPT !.parts = 0]
  <2>1. http_find_file(hs[c], r.uri) \in HttpState /\ http_find_file(hs[c], r.uri).handle
        /\ http_find_file(hs[c], r.uri).left = 0
    BY <1>2, Page DEF IInv, ConnInv, ConnTypes
  <2>2. h \in HttpState /\ h.handle /\ h.left = 0
    BY <2>1 DEF HttpState
  <2>3. http_send(c, h, 0)
    BY DEF http_parse_get
  <2> HIDE DEF h
  <2> QED
    BY <2>2, <2>3, Sent DEF IInv
<1>5. UploadAccounting'
  BY <1>3, <1>4, AccountsKept DEF IInv, Owns, Busy
<1>6. OtaTypes' /\ StagedIsVerified'
  BY <1>2, <1>3 DEF IInv, Firmware, OtaTypes, StagedIsVerified
<1>7. TaskOwnsUpdate' /\ CopiedSoFar'
  <2>1. CASE ota'.st = "APPLYING" /\ ota.st = "VERIFIED"
    BY <1>1, <2>1 DEF TaskOwnsUpdate, CopiedSoFar
  <2>2. CASE ~(ota'.st = "APPLYING" /\ ota.st = "VERIFIED")
    BY <1>1, <1>2, <1>3, <2>2 DEF IInv, Firmware, TaskOwnsUpdate, CopiedSoFar, Busy, Idle
  <2> QED
    BY <2>1, <2>2
<1>8. RunningIsWhole'
  BY <1>2 DEF IInv, Firmware, RunningIsWhole
<1> QED
  BY <1>4, <1>5, <1>6, <1>7, <1>8 DEF IInv, Firmware, Released

\* The accounts after a piece of a body, for every connection.
LEMMA BodyStep ==
  ASSUME IInv, NEW c \in Conns, UNCHANGED applyVars,
         ConnInv', OthersKept(c), ota' \in OtaRecord, Spares(ota, ota'),
         \A d \in Conns \ {c} : ~Owns(ota, d),
         hs'[c].left > 0 => pcb'[c] = "open" /\ Owns(ota', c) /\ ota'.expected - ota'.received = hs'[c].left
  PROVE  IInv'
<1>1. UploadAccounting'
  BY DEF IInv, UploadAccounting, OthersKept
<1>2. Firmware'
  BY FirmwareKept DEF IInv
<1> QED
  BY <1>1, <1>2 DEF IInv

LEMMA DataStep ==
  ASSUME IInv, NEW c \in Conns, http_recv_post_data(c)
  PROVE  IInv'
<1>1. PICK n \in 1 .. MaxSegment : http_post_rxpbuf(c, ota, [hs[c] EXCEPT !.retries = 0], image[c], n)
  BY DEF http_recv_post_data
<1> DEFINE h == [hs[c] EXCEPT !.retries = 0]
<1>2. h \in HttpState /\ h.left = hs[c].left /\ h.handle = hs[c].handle
  BY DEF IInv, ConnInv, ConnTypes, HttpState
<1> HIDE DEF h
<1>3. pcb[c] = "open" /\ hs[c].left > 0 /\ UNCHANGED applyVars
  BY DEF http_recv_post_data
<1>4. image[c] \in Images /\ ~hs[c].handle /\ inflight[c] = 0
  BY <1>3 DEF IInv, ConnInv, Uploads
<1>5. Owns(ota, c) /\ hs[c].left = ota.expected - ota.received
  BY <1>3 DEF IInv, UploadAccounting
<1>6. ota \in OtaRecord /\ ConnInv
  BY DEF IInv, Firmware, OtaTypes
<1>7. /\ ConnInv' /\ OthersKept(c) /\ ota' \in OtaRecord /\ Spares(ota, ota')
      /\ hs'[c].left > 0 => pcb'[c] = "open" /\ Owns(ota', c) /\ ota'.expected - ota'.received = hs'[c].left
  BY <1>1, <1>2, <1>3, <1>4, <1>5, <1>6, Body DEF h
<1> QED
  BY <1>3, <1>5, <1>7, BodyStep DEF Owns

LEMMA PostStep ==
  ASSUME IInv, NEW c \in Conns, NEW r \in Requests, http_post_request(c, r)
  PROVE  IInv'
<1> DEFINE upload == r.uri = "/ota/upload"
           accepted == upload /\ ~Busy(ota) /\ GoodSize(r.len)
           begun == IF upload THEN httpd_post_begin(ota, c, r.len) ELSE ota
           h == [hs[c] EXCEPT !.parts = 0, !.left = IF accepted THEN r.len ELSE 0]
<1>1. r.len \in Nat /\ r.image \in Images
  BY HttpAssumption DEF http_post_request
<1>2. pcb[c] = "open" /\ hs[c].left = 0 /\ ~hs[c].handle /\ UNCHANGED applyVars
  BY DEF http_post_request, Parsing
<1>3. inflight[c] = 0 /\ hs[c] \in HttpState /\ ota \in OtaRecord /\ ConnInv
  BY <1>2 DEF IInv, ConnInv, ConnTypes, Uploads, Firmware, OtaTypes
<1>4. begun \in OtaRecord /\ Spares(ota, begun)
  BY <1>1, <1>3, Begin, BeginSpares, SparesItself
<1>5. accepted => Owns(begun, c) /\ begun.expected = r.len /\ begun.received = 0
  BY <1>1, <1>3, Begin
<1>6. accepted => \A d \in Conns : ~Owns(ota, d)
  BY DEF Owns, Busy
<1>7. h \in HttpState /\ ~h.handle /\ h.left = IF accepted THEN r.len ELSE 0
  <2> DEFINE len == IF accepted THEN r.len ELSE 0
  <2>1. len \in Nat
    BY <1>1
  <2> HIDE DEF len
  <2>2. [[hs[c] EXCEPT !.parts = 0] EXCEPT !.left = len] \in HttpState
    BY <1>3, <2>1, StateFields
  <2>3. ~[[hs[c] EXCEPT !.parts = 0] EXCEPT !.left = len].handle
        /\ [[hs[c] EXCEPT !.parts = 0] EXCEPT !.left = len].left = len
    BY <1>2, <1>3 DEF HttpState
  <2> QED
    BY <2>2, <2>3 DEF len
<1>8. \/ accepted /\ \E n \in 1 .. MaxSegment : http_post_rxpbuf(c, begun, h, r.image, n)
      \/ accepted /\ ota' = begun /\ hs' = [hs EXCEPT ![c] = h]
         /\ image' = [image EXCEPT ![c] = r.image] /\ UNCHANGED <<pcb, inflight>>
      \/ ~accepted /\ ota' = begun
         /\ http_send(c, http_find_file(h, IF upload THEN "/rest/ota_state" ELSE "/404"), 0)
  BY DEF http_post_request
<1>9. ~accepted => \A d \in Conns : Owns(ota, d) => begun = ota
  BY <1>1, <1>3, Begin DEF Owns, Busy
<1> HIDE DEF accepted, begun, h
<1>10. CASE accepted /\ \E n \in 1 .. MaxSegment : http_post_rxpbuf(c, begun, h, r.image, n)
  <2>1. h.left = begun.expected - begun.received
    BY <1>1, <1>5, <1>7, <1>10
  <2>2. /\ ConnInv' /\ OthersKept(c) /\ ota' \in OtaRecord /\ Spares(begun, ota')
        /\ hs'[c].left > 0 => pcb'[c] = "open" /\ Owns(ota', c) /\ ota'.expected - ota'.received = hs'[c].left
    BY <1>1, <1>2, <1>3, <1>4, <1>5, <1>7, <1>10, <2>1, Body
  <2>3. Spares(ota, ota')
    BY <1>4, <2>2 DEF Spares
  <2> QED
    BY <1>2, <1>6, <1>10, <2>2, <2>3, BodyStep
<1>11. CASE accepted /\ ota' = begun /\ hs' = [hs EXCEPT ![c] = h]
            /\ image' = [image EXCEPT ![c] = r.image] /\ UNCHANGED <<pcb, inflight>>
  <2>1. ConnInv' /\ OthersKept(c)
    BY <1>1, <1>3, <1>7, <1>11 DEF ConnInv, ConnTypes, Uploads, OthersKept
  <2>2. hs'[c] = h
    BY <1>3, <1>11 DEF ConnInv, ConnTypes
  <2>3. pcb'[c] = "open" /\ Owns(ota', c) /\ ota'.expected - ota'.received = hs'[c].left
    BY <1>1, <1>2, <1>5, <1>7, <1>11, <2>2
  <2> QED
    BY <1>2, <1>4, <1>6, <1>11, <2>1, <2>3, BodyStep
<1>12. CASE ~accepted /\ ota' = begun
            /\ http_send(c, http_find_file(h, IF upload THEN "/rest/ota_state" ELSE "/404"), 0)
  <2>1. h.left = 0
    BY <1>7, <1>12
  <2>2. Released(c)
    BY <1>3, <1>7, <1>12, <2>1, Page, Sent
  <2>3. UploadAccounting'
    BY <1>9, <1>12, <2>2, AccountsKept DEF IInv
  <2>4. Firmware'
    BY <1>2, <1>4, <1>12, FirmwareKept DEF IInv
  <2> QED
    BY <2>2, <2>3, <2>4 DEF IInv, Released
<1> QED
  BY <1>8, <1>10, <1>11, <1>12

-----------------------------------------------------------------------------
(* The apply task and the reboot. *)

LEMMA ApplyTaskStep ==
  ASSUME IInv, ota_apply_task \/ ota_apply_refused \/ ota_apply_start \/ ota_apply_job
  PROVE  IInv'
<1> USE DEF IInv, httpVars
<1>1. CASE ota_apply_task
  <2>1. ConnInv' /\ UploadAccounting'
    BY <1>1 DEF ota_apply_task, ConnInv, ConnTypes, Uploads, UploadAccounting, Owns
  <2>2. Firmware'
    BY <1>1 DEF ota_apply_task, Firmware, OtaTypes, StagedIsVerified, TaskOwnsUpdate, CopiedSoFar,
                RunningIsWhole, Idle
  <2> QED
    BY <2>1, <2>2
<1>2. CASE ota_apply_refused
  <2>1. ota.st = "APPLYING" /\ ota \in OtaRecord
    BY <1>2 DEF ota_apply_refused, Firmware, OtaTypes, TaskOwnsUpdate
  <2>2. ota' \in OtaRecord /\ ota'.st = "ERROR"
    BY <1>2, <2>1, Changed, States DEF ota_apply_refused, OtaRecord
  <2>3. ConnInv' /\ UploadAccounting'
    BY <1>2, <2>1 DEF ota_apply_refused, ConnInv, ConnTypes, Uploads, UploadAccounting, Owns
  <2>4. Firmware'
    BY <1>2, <2>2 DEF ota_apply_refused, Firmware, OtaTypes, StagedIsVerified, TaskOwnsUpdate, CopiedSoFar,
                      RunningIsWhole, Idle
  <2> QED
    BY <2>3, <2>4
<1>3. CASE ota_apply_start
  <2>1. ConnInv' /\ UploadAccounting'
    BY <1>3 DEF ota_apply_start, ConnInv, ConnTypes, Uploads, UploadAccounting, Owns
  <2>2. Firmware'
    BY <1>3 DEF ota_apply_start, Firmware, OtaTypes, StagedIsVerified, TaskOwnsUpdate, CopiedSoFar,
                RunningIsWhole, Idle, SectorsOf, Sector
  <2> QED
    BY <2>1, <2>2
<1>4. CASE ota_apply_job
  <2>1. ConnInv' /\ UploadAccounting'
    BY <1>4 DEF ota_apply_job, ConnInv, ConnTypes, Uploads, UploadAccounting, Owns
  <2>2. pos \in Sector /\ ota.stage[pos] \in Content
    BY <1>4, Fields DEF ota_apply_job, SectorsOf, Firmware, OtaTypes
  <2>3. OtaTypes'
    BY <1>4, <2>2 DEF ota_apply_job, Firmware, OtaTypes
  <2>4. CopiedSoFar'
    <3>1. ASSUME NEW s \in SectorsOf(length), s < pos + 1
          PROVE  running'[s] = ota.stage[s]
      <4>1. s \in Sector /\ s \in Int /\ pos \in Int
        BY DEF SectorsOf, Sector, Firmware, OtaTypes
      <4>2. CASE s = pos
        BY <1>4, <2>2, <4>2 DEF ota_apply_job, Firmware, OtaTypes
      <4>3. CASE s < pos
        BY <1>4, <4>1, <4>3 DEF ota_apply_job, Firmware, OtaTypes, CopiedSoFar
      <4> QED
        BY <3>1, <4>1, <4>2, <4>3
    <3> QED
      BY <1>4, <3>1 DEF ota_apply_job, CopiedSoFar
  <2>5. StagedIsVerified' /\ TaskOwnsUpdate' /\ RunningIsWhole'
    BY <1>4 DEF ota_apply_job, Firmware, StagedIsVerified, TaskOwnsUpdate, RunningIsWhole, Idle
  <2> QED
    BY <2>1, <2>3, <2>4, <2>5 DEF Firmware
<1> QED
  BY <1>1, <1>2, <1>3, <1>4

\* After a restart only the two halves of the flash are left.
LEMMA RestartStep ==
  ASSUME IInv, Restart, apply' \in {"none", "torn"}, RunningIsWhole'
  PROVE  IInv'
<1>1. ConnInv' /\ UploadAccounting'
  BY FreshState DEF Restart, ConnInv, ConnTypes, Uploads, UploadAccounting
<1>2. ota' \in OtaRecord /\ ota'.st = "IDLE"
  <2>1. ota' = [st |-> "IDLE", conn |-> NoConn, expected |-> 0, received |-> 0, buf |-> {}, fill |-> 0,
                index |-> 0, crc |-> NoImage, stage |-> ota.stage]
    BY DEF Restart, ota_init
  <2>2. ota.stage \in [Sector -> Content] /\ {} \in Content
    BY Fields DEF IInv, Firmware, OtaTypes, Content
  <2>3. ota' \in OtaRecord
    BY <2>1, <2>2, States DEF OtaRecord
  <2> QED
    BY <2>1, <2>3
<1>3. OtaTypes' /\ StagedIsVerified' /\ TaskOwnsUpdate' /\ CopiedSoFar'
  BY <1>2 DEF Restart, IInv, Firmware, OtaTypes, StagedIsVerified, TaskOwnsUpdate, CopiedSoFar
<1> QED
  BY <1>1, <1>3 DEF IInv, Firmware

\* When the copy is complete, every sector of the image runs.
LEMMA ResetStep ==
  ASSUME IInv, ota_apply_reset
  PROVE  IInv'
<1>1. apply = "copy" /\ pos \notin SectorsOf(length) /\ Restart /\ apply' = "none" /\ running' = running
  BY DEF ota_apply_reset, Restart
<1>2. PICK x \in Plausible \cap Images : Staged(ota, x)
  BY <1>1 DEF IInv, Firmware, StagedIsVerified, TaskOwnsUpdate, Good
<1>3. length = Length[x] /\ length \in Nat
  BY <1>1, <1>2, OtaAssumption DEF IInv, Firmware, TaskOwnsUpdate, Staged
<1>4. ASSUME NEW s \in SectorsOf(length) PROVE s < pos
  <2>1. s \in Nat /\ pos \in Nat /\ s < Sectors /\ s * SectorBytes < length /\ SectorBytes \in Nat /\ Sectors \in Nat
    BY OtaAssumption DEF SectorsOf, Sector, IInv, Firmware, OtaTypes
  <2>2. ASSUME pos <= s PROVE FALSE
    <3>1. pos * SectorBytes <= s * SectorBytes
      BY <2>1, <2>2
    <3>2. pos * SectorBytes \in Nat /\ s * SectorBytes \in Nat
      BY <2>1
    <3>3. pos * SectorBytes < length
      BY <1>3, <2>1, <3>1, <3>2
    <3>4. pos \in Sector
      BY <2>1, <2>2 DEF Sector
    <3> QED
      BY <1>1, <3>3, <3>4 DEF SectorsOf
  <2> QED
    BY <2>1, <2>2
<1>5. \A s \in SectorsOf(Length[x]) : running'[s] = {x}
  BY <1>1, <1>2, <1>3, <1>4 DEF IInv, Firmware, CopiedSoFar, TaskOwnsUpdate, Staged
<1>6. RunningIsWhole'
  BY <1>5 DEF RunningIsWhole
<1> QED
  BY <1>1, <1>6, RestartStep

LEMMA RebootStep ==
  ASSUME IInv, software_reboot
  PROVE  IInv'
<1>1. Restart /\ apply' \in {"none", "torn"} /\ (apply # "copy" => apply # "torn") /\ (apply = "copy" => apply' = "torn")
      /\ running' = running
  BY DEF software_reboot, Restart
<1>2. RunningIsWhole'
  BY <1>1 DEF IInv, Firmware, RunningIsWhole, Idle
<1> QED
  BY <1>1, <1>2, RestartStep

LEMMA InitInv == Init => IInv
<1> SUFFICES ASSUME Init PROVE IInv
  OBVIOUS
<1> USE DEF Init
<1>1. ConnInv /\ UploadAccounting
  BY FreshState DEF ConnInv, ConnTypes, Uploads, UploadAccounting
<1>2. ota \in OtaRecord /\ ota.st = "IDLE"
  <2>1. {} \in Content
    BY DEF Content
  <2> QED
    BY <2>1, States DEF ota_init, OtaRecord
<1>3. {OldImage} \in Content
  BY DEF Content
<1>4. Firmware
  BY <1>2, <1>3 DEF Firmware, OtaTypes, StagedIsVerified, TaskOwnsUpdate, CopiedSoFar, RunningIsWhole
<1> QED
  BY <1>1, <1>4 DEF IInv

LEMMA NextInv == IInv /\ [Next]_vars => IInv'
<1> SUFFICES ASSUME IInv, [Next]_vars PROVE IInv'
  OBVIOUS
<1>1. CASE UNCHANGED vars
  BY <1>1 DEF vars, httpVars, applyVars, IInv, ConnInv, ConnTypes, Uploads, UploadAccounting, Owns, Firmware,
              OtaTypes, StagedIsVerified, TaskOwnsUpdate, CopiedSoFar, RunningIsWhole, Idle
<1>2. ASSUME NEW c \in Conns, Connection(c) PROVE IInv'
  BY <1>2, AcceptStep, IncompleteStep, GetStep, BadStep, PostStep, DataStep, FinStep, ErrStep, SentStep, PollStep
     DEF Connection
<1>3. CASE ApplyTask
  BY <1>3, ApplyTaskStep, ResetStep DEF ApplyTask
<1>4. CASE software_reboot
  BY <1>4, RebootStep
<1> QED
  BY <1>1, <1>2, <1>3, <1>4 DEF Next

-----------------------------------------------------------------------------
(* The parameters of a query: what extract_uri_parameters makes of a text that *)
(* carries some, whatever their names, their values and their number.          *)

LEMMA LeastMember ==
  ASSUME NEW T \in SUBSET Nat, T # {}
  PROVE  \E x \in T : \A y \in T : x <= y
<1> DEFINE R == {ss \in Nat \X Nat : ss[1] < ss[2]}
<1>1. OpToRel(<, Nat) = R
  BY DEF OpToRel
<1>2. IsWellFoundedOn(R, Nat)
  BY <1>1, NatLessThanWellFounded
<1>3. PICK x \in T : \A y \in T : ~ (<<y, x>> \in R)
  <2> HIDE DEF R
  <2> QED
    BY <1>2, WFMin
<1>4. \A y \in T : x <= y
  <2>1. \A y \in T : x \in Nat /\ y \in Nat /\ ~(y < x)
    BY <1>3
  <2> QED
    BY <2>1
<1> QED
  BY <1>4

Text == Seq(STRING)
Symbols == STRING \union {"="} \union {Escape[ch] : ch \in DOMAIN Escape}

\* A value comes out of the decoder as it went in, and no "&" is left in it on the way.
LEMMA DecodedAgain ==
  ASSUME NEW v \in Text, \A k \in DOMAIN v : v[k] \in DOMAIN Escape \/ v[k] \notin DOMAIN Decoded
  PROVE  /\ Encode(v) \in Seq(Symbols) /\ Len(Encode(v)) = Len(v)
         /\ \A k \in 1 .. Len(v) : Encode(v)[k] # "&"
         /\ decode_uri(Encode(v)) = v
<1> DEFINE sent(k) == IF v[k] \in DOMAIN Escape THEN Escape[v[k]] ELSE v[k]
<1>1. Len(v) \in Nat /\ DOMAIN v = 1 .. Len(v) /\ \A k \in 1 .. Len(v) : v[k] \in STRING
  BY DEF Text
<1>2. \A k \in 1 .. Len(v) : sent(k) \in Symbols
  BY <1>1 DEF Symbols
<1>3. Encode(v) = [k \in 1 .. Len(v) |-> sent(k)]
  BY <1>1 DEF Encode
<1>4. Encode(v) \in Seq(Symbols) /\ Len(Encode(v)) = Len(v) /\ DOMAIN Encode(v) = 1 .. Len(v)
      /\ \A k \in 1 .. Len(v) : Encode(v)[k] = sent(k)
  <2> HIDE DEF sent
  <2>1. [k \in 1 .. Len(v) |-> sent(k)] \in Seq(Symbols)
    BY <1>1, <1>2
  <2>2. Len([k \in 1 .. Len(v) |-> sent(k)]) = Len(v)
    BY <1>1, <2>1
  <2> QED
    BY <1>3, <2>1, <2>2
<1>5. \A k \in 1 .. Len(v) : sent(k) # "&"
  BY ClientAssumption
<1>6. ASSUME NEW k \in 1 .. Len(v)
      PROVE  (IF sent(k) \in DOMAIN Decoded THEN Decoded[sent(k)] ELSE sent(k)) = v[k]
  BY <1>1, ClientAssumption
<1> HIDE DEF sent
<1>7. decode_uri(Encode(v)) = [k \in 1 .. Len(v) |-> IF sent(k) \in DOMAIN Decoded THEN Decoded[sent(k)] ELSE sent(k)]
  BY <1>4 DEF decode_uri
<1>8. decode_uri(Encode(v)) = [k \in 1 .. Len(v) |-> v[k]]
  BY <1>6, <1>7
<1>9. v = [k \in 1 .. Len(v) |-> v[k]]
  BY <1>1 DEF Text
<1> QED
  BY <1>4, <1>5, <1>8, <1>9

\* One parameter is read as it was written.
LEMMA ParameterRead ==
  ASSUME NEW p \in Text \X Text, Sendable(p)
  PROVE  /\ Written(p) \in Seq(Symbols) /\ Len(Written(p)) > 0
         /\ \A k \in 1 .. Len(Written(p)) : Written(p)[k] # "&"
         /\ NameAndValue(Written(p)) = p
<1> DEFINE name == p[1]
           value == p[2]
           w == Written(p)
           n == Len(name)
<1>1. name \in Text /\ value \in Text /\ p = <<name, value>> /\ n \in Nat /\ Len(value) \in Nat /\ name \in Seq(Symbols)
  <2>1. p[1] \in Text /\ p[2] \in Text /\ p = <<p[1], p[2]>>
    OBVIOUS
  <2>2. STRING \subseteq Symbols
    BY DEF Symbols
  <2> QED
    BY <2>1, <2>2, LenProperties, SeqMonotonic DEF Text
<1>2. /\ Encode(value) \in Seq(Symbols) /\ Len(Encode(value)) = Len(value)
      /\ \A k \in 1 .. Len(value) : Encode(value)[k] # "&"
      /\ decode_uri(Encode(value)) = value
  BY <1>1, DecodedAgain DEF Sendable
<1>3. \A k \in 1 .. n : name[k] # "&" /\ name[k] # "="
  BY <1>1 DEF Sendable, Text
<1> DEFINE eqs == <<"=">>
<1>4. eqs \in Seq(Symbols) /\ Len(eqs) = 1 /\ eqs[1] = "="
  <2>1. "=" \in Symbols
    BY DEF Symbols
  <2> QED
    BY <2>1
<1> HIDE DEF eqs, name, value
<1>5. w = (name \o eqs) \o Encode(value)
  BY DEF Written, name, value, eqs
<1> HIDE DEF w
<1>6. /\ name \o eqs \in Seq(Symbols) /\ Len(name \o eqs) = n + 1
      /\ \A k \in 1 .. n + 1 : (name \o eqs)[k] = IF k <= n THEN name[k] ELSE "="
  <2>1. /\ name \o eqs \in Seq(Symbols) /\ Len(name \o eqs) = n + 1
        /\ \A k \in 1 .. n + 1 : (name \o eqs)[k] = IF k <= n THEN name[k] ELSE eqs[k - n]
    <3>1. /\ name \o eqs \in Seq(Symbols) /\ Len(name \o eqs) = Len(name) + Len(eqs)
          /\ \A k \in 1 .. Len(name) + Len(eqs) :
                (name \o eqs)[k] = IF k <= Len(name) THEN name[k] ELSE eqs[k - Len(name)]
      BY <1>1, <1>4, ConcatProperties, Zenon
    <3> QED
      BY <1>1, <1>4, <3>1
  <2>2. \A k \in 1 .. n + 1 : ~(k <= n) => k - n = 1
    BY <1>1
  <2> QED
    BY <1>4, <2>1, <2>2
<1>7. /\ w \in Seq(Symbols) /\ Len(w) = n + 1 + Len(value)
      /\ \A k \in 1 .. n + 1 + Len(value) :
            w[k] = IF k <= n THEN name[k] ELSE IF k = n + 1 THEN "=" ELSE Encode(value)[k - (n + 1)]
  <2>1. /\ w \in Seq(Symbols) /\ Len(w) = n + 1 + Len(value)
        /\ \A k \in 1 .. n + 1 + Len(value) :
              w[k] = IF k <= n + 1 THEN (name \o eqs)[k] ELSE Encode(value)[k - (n + 1)]
    <3> DEFINE u == name \o eqs
               e == Encode(value)
    <3>1. u \in Seq(Symbols) /\ e \in Seq(Symbols) /\ Len(u) = n + 1 /\ Len(e) = Len(value) /\ w = u \o e
      BY <1>2, <1>5, <1>6
    <3> HIDE DEF u, e
    <3>2. /\ u \o e \in Seq(Symbols) /\ Len(u \o e) = Len(u) + Len(e)
          /\ \A k \in 1 .. Len(u) + Len(e) : (u \o e)[k] = IF k <= Len(u) THEN u[k] ELSE e[k - Len(u)]
      <4>1. u \in Seq(Symbols) /\ e \in Seq(Symbols)
        BY <3>1
      <4> QED
        BY <4>1, ConcatProperties, Zenon
    <3>3. /\ w \in Seq(Symbols) /\ Len(w) = n + 1 + Len(value)
          /\ \A k \in 1 .. n + 1 + Len(value) : w[k] = IF k <= n + 1 THEN u[k] ELSE e[k - (n + 1)]
      BY <3>1, <3>2
    <3> QED
      BY <3>3 DEF u, e
  <2>2. n \in Nat /\ Len(value) \in Nat
    BY <1>1
  <2> DEFINE u == name \o eqs
             e == Encode(value)
  <2>3. \A k \in 1 .. n + 1 : u[k] = IF k <= n THEN name[k] ELSE "="
    BY <1>6
  <2>4. /\ w \in Seq(Symbols) /\ Len(w) = n + 1 + Len(value)
        /\ \A k \in 1 .. n + 1 + Len(value) : w[k] = IF k <= n + 1 THEN u[k] ELSE e[k - (n + 1)]
    BY <2>1
  <2> HIDE DEF n, u, e
  <2>5. ASSUME NEW k \in 1 .. n + 1 + Len(value)
        PROVE  w[k] = IF k <= n THEN name[k] ELSE IF k = n + 1 THEN "=" ELSE e[k - (n + 1)]
    <3>1. CASE k <= n
      <4>1. k \in 1 .. n + 1 /\ k <= n + 1
        BY <2>2, <3>1
      <4> QED
        BY <2>3, <2>4, <3>1, <4>1
    <3>2. CASE k = n + 1
      <4>1. k \in 1 .. n + 1 /\ k <= n + 1 /\ ~(k <= n)
        BY <2>2, <3>2
      <4> QED
        BY <2>3, <2>4, <3>2, <4>1
    <3>3. CASE ~(k <= n) /\ k # n + 1
      <4>1. ~(k <= n + 1)
        BY <2>2, <3>3
      <4> QED
        BY <2>4, <3>3, <4>1
    <3> QED
      BY <3>1, <3>2, <3>3
  <2> QED
    BY <2>4, <2>5 DEF e
<1>8. DOMAIN w = 1 .. n + 1 + Len(value)
  BY <1>7, LenProperties
<1>9. \A k \in 1 .. Len(w) : w[k] # "&"
  <2>1. n \in Nat /\ Len(value) \in Nat /\ \A k \in 1 .. n : name[k] # "&"
    BY <1>1, <1>3
  <2>2. \A k \in 1 .. n + 1 + Len(value) : k <= n \/ k = n + 1 \/ (~(k <= n) /\ k # n + 1 /\ k - (n + 1) \in 1 .. Len(value))
    BY <2>1
  <2> DEFINE e == Encode(value)
  <2>3. \A k \in 1 .. Len(value) : e[k] # "&"
    BY <1>2
  <2>4. Len(w) = n + 1 + Len(value)
        /\ \A k \in 1 .. n + 1 + Len(value) :
              w[k] = IF k <= n THEN name[k] ELSE IF k = n + 1 THEN "=" ELSE e[k - (n + 1)]
    BY <1>7
  <2> HIDE DEF n, e
  <2>5. ASSUME NEW k \in 1 .. n + 1 + Len(value) PROVE w[k] # "&"
    <3>1. CASE k <= n
      <4>1. k \in 1 .. n
        BY <2>1, <3>1
      <4> QED
        BY <2>1, <2>4, <3>1, <4>1
    <3>2. CASE k = n + 1
      BY <2>1, <2>4, <3>2
    <3>3. CASE ~(k <= n) /\ k # n + 1
      <4>1. k - (n + 1) \in 1 .. Len(value) /\ w[k] = e[k - (n + 1)]
        BY <2>2, <2>4, <3>3
      <4> QED
        BY <2>3, <4>1
    <3> QED
      BY <3>1, <3>2, <3>3
  <2> QED
    BY <2>4, <2>5
<1> DEFINE eq == {i \in DOMAIN w : w[i] = "="}
           first == CHOOSE i \in eq : \A k \in eq : i <= k
<1>10. n + 1 \in eq /\ \A k \in eq : n + 1 <= k
  BY <1>1, <1>3, <1>7, <1>8
<1>11. first = n + 1
  <2>1. first \in eq /\ \A k \in eq : first <= k
    BY <1>10
  <2> HIDE DEF first
  <2>2. first \in Int /\ first <= n + 1 /\ n + 1 <= first
    BY <1>1, <1>8, <1>10, <2>1
  <2> QED
    BY <1>1, <2>2
<1>12. SubSeq(w, 1, n) = name
  <2>1. \A i \in 1 .. n : w[i] = name[i]
    BY <1>1, <1>7
  <2>2. \A i \in 1 .. n : w[i] \in Symbols
    BY <1>1, <2>1, ElementOfSeq
  <2>3. /\ SubSeq(w, 1, n) \in Seq(Symbols) /\ Len(SubSeq(w, 1, n)) = n
        /\ \A i \in 1 .. n : SubSeq(w, 1, n)[i] = w[i]
    BY <1>1, <2>2, SubSeqProperties
  <2> QED
    BY <1>1, <2>1, <2>3, SeqEqual
<1>13. SubSeq(w, n + 2, Len(w)) = Encode(value)
  <2>1. \A i \in n + 2 .. Len(w) : w[i] \in Symbols
    BY <1>1, <1>7, ElementOfSeq
  <2>2. /\ SubSeq(w, n + 2, Len(w)) \in Seq(Symbols)
        /\ Len(SubSeq(w, n + 2, Len(w))) = IF n + 2 <= Len(w) THEN Len(w) - (n + 2) + 1 ELSE 0
        /\ \A i \in 1 .. Len(w) - (n + 2) + 1 : SubSeq(w, n + 2, Len(w))[i] = w[n + 2 + i - 1]
    BY <1>1, <1>7, <2>1, SubSeqProperties
  <2>3. Len(SubSeq(w, n + 2, Len(w))) = Len(value)
    BY <1>1, <1>7, <2>2
  <2>4. ASSUME NEW i \in 1 .. Len(value) PROVE SubSeq(w, n + 2, Len(w))[i] = Encode(value)[i]
    <3>1. i \in 1 .. Len(w) - (n + 2) + 1 /\ n + 2 + i - 1 \in 1 .. n + 1 + Len(value)
          /\ ~(n + 2 + i - 1 <= n + 1) /\ (n + 2 + i - 1) - (n + 1) = i
      BY <1>1, <1>7
    <3> QED
      BY <1>1, <1>7, <2>2, <3>1
  <2> QED
    BY <1>2, <2>2, <2>3, <2>4, SeqEqual
<1>14. NameAndValue(w) = <<SubSeq(w, 1, first - 1), decode_uri(SubSeq(w, first + 1, Len(w)))>>
  BY <1>10 DEF NameAndValue
<1>15. NameAndValue(w) = <<name, value>>
  <2> HIDE DEF first
  <2>1. first - 1 = n /\ first + 1 = n + 2
    BY <1>1, <1>11
  <2> QED
    BY <1>2, <1>12, <1>13, <1>14, <2>1
<1>16. Len(w) > 0
  BY <1>1, <1>7
<1>17. NameAndValue(w) = p
  BY <1>1, <1>15
<1> QED
  BY <1>7, <1>9, <1>16, <1>17 DEF w

\* The cuts of a query that carries parameters are where they start, and the text from
\* one cut to the next is one of them.
LEMMA QueryCut ==
  ASSUME NEW q \in Text, NEW params \in Seq(Text \X Text), params # <<>>,
         \A i \in DOMAIN params : Sendable(params[i]), Carries(q, params)
  PROVE  /\ q # <<>>
         /\ \E cut \in [0 .. Len(params) -> 0 .. Len(q) + 1] :
               /\ Cuts(q) = {cut[i - 1] : i \in 1 .. Len(params)}
               /\ \A i \in 1 .. Len(params) : PairAt(q, cut[i - 1]) = Written(params[i])
<1> DEFINE n == Len(params)
           len == Len(q)
<1>1. n \in Nat /\ n >= 1 /\ len \in Nat /\ DOMAIN params = 1 .. n /\ DOMAIN q = 1 .. len
  BY EmptySeq, LenProperties DEF Text
<1>2. PICK cut \in [0 .. n -> 0 .. len + 1] :
         /\ cut[0] = 0 /\ cut[n] = len + 1
         /\ \A i, j \in 0 .. n : i < j => cut[i] < cut[j]
         /\ \A i \in 1 .. n : /\ SubSeq(q, cut[i - 1] + 1, cut[i] - 1) = Written(params[i])
                              /\ i < n => q[cut[i]] = "&"
  BY DEF Carries
<1>3. \A i \in 0 .. n : cut[i] \in 0 .. len + 1 /\ cut[i] \in Int
  BY <1>2
<1> HIDE DEF n, len
\* No "&" lies between two neighbouring cuts.
<1>4. ASSUME NEW i \in 1 .. n, NEW j \in 1 .. len, cut[i - 1] < j, j < cut[i] PROVE q[j] # "&"
  <2> DEFINE a == cut[i - 1]
             b == cut[i]
             w == Written(params[i])
  <2>1. a \in Int /\ b \in Int /\ a >= 0 /\ b <= len + 1
    BY <1>1, <1>3
  <2>2. w = SubSeq(q, a + 1, b - 1)
    BY <1>2
  <2>3. \A k \in 1 .. Len(w) : w[k] # "&"
    <3>1. params[i] \in Text \X Text /\ Sendable(params[i])
      BY <1>1, ElementOfSeq DEF n
    <3> QED
      BY <3>1, ParameterRead
  <2> HIDE DEF a, b, w
  <2>4. \A k \in a + 1 .. b - 1 : q[k] \in STRING
    BY <1>1, <2>1, ElementOfSeq DEF Text, len
  <2>5. a < j /\ j < b
    BY <1>4 DEF a, b
  <2>6. /\ Len(w) = (b - 1) - (a + 1) + 1
        /\ \A k \in 1 .. (b - 1) - (a + 1) + 1 : w[k] = q[a + 1 + k - 1]
    BY <2>1, <2>2, <2>4, <2>5, SubSeqProperties
  <2>7. j - a \in 1 .. (b - 1) - (a + 1) + 1 /\ a + 1 + (j - a) - 1 = j
    BY <1>1, <2>1, <2>5
  <2> QED
    BY <2>3, <2>6, <2>7
\* Every place lies behind one cut and not behind the next.
<1>5. ASSUME NEW j \in 1 .. len PROVE \E i \in 1 .. n : cut[i - 1] < j /\ j <= cut[i]
  <2> DEFINE T == {i \in 0 .. n : j <= cut[i]}
  <2>1. T \in SUBSET Nat /\ n \in T
    BY <1>1, <1>2
  <2>2. PICK i \in T : \A k \in T : i <= k
    <3> HIDE DEF T
    <3> QED
      BY <2>1, LeastMember
  <2>3. i \in 0 .. n /\ j <= cut[i] /\ i # 0
    BY <1>2, <2>2
  <2>4. i - 1 \in 0 .. n /\ i - 1 \notin T
    BY <1>1, <2>2, <2>3
  <2>5. cut[i - 1] < j
    BY <1>3, <2>4
  <2> QED
    BY <2>3, <2>5
<1>6. Cuts(q) = {cut[i - 1] : i \in 1 .. n}
  <2>1. ASSUME NEW j \in Cuts(q) PROVE \E i \in 1 .. n : j = cut[i - 1]
    <3>1. CASE j = 0
      <4>1. 1 \in 1 .. n /\ 1 - 1 = 0
        BY <1>1
      <4> QED
        BY <1>2, <3>1, <4>1
    <3>2. CASE j # 0
      <4>1. j \in 1 .. len /\ q[j] = "&"
        BY <1>1, <3>2 DEF Cuts
      <4>2. PICK i \in 1 .. n : cut[i - 1] < j /\ j <= cut[i]
        BY <1>5, <4>1
      <4>3. j = cut[i]
        <5>1. i \in 0 .. n /\ i - 1 \in 0 .. n /\ cut[i] \in Int
          BY <1>1, <1>3
        <5>2. ~(j < cut[i])
          BY <1>4, <4>1, <4>2
        <5> QED
          BY <4>1, <4>2, <5>1, <5>2
      <4>4. i < n
        <5>1. i # n
          BY <1>1, <1>2, <4>1, <4>3
        <5> QED
          BY <1>1, <5>1
      <4>5. i + 1 \in 1 .. n /\ (i + 1) - 1 = i
        BY <1>1, <4>4
      <4> QED
        BY <4>3, <4>5
    <3> QED
      BY <3>1, <3>2
  <2>2. ASSUME NEW i \in 1 .. n PROVE cut[i - 1] \in Cuts(q)
    <3>1. CASE i = 1
      BY <1>2, <3>1 DEF Cuts
    <3>2. CASE i # 1
      <4> DEFINE k == i - 1
      <4>1. k \in 1 .. n /\ k < n /\ k \in 0 .. n /\ 0 \in 0 .. n /\ n \in 0 .. n /\ 0 < k
        BY <1>1, <3>2
      <4> HIDE DEF k
      <4>2. q[cut[k]] = "&" /\ cut[0] < cut[k] /\ cut[k] < cut[n] /\ cut[k] \in Int
        BY <1>2, <1>3, <4>1
      <4>3. cut[k] \in 1 .. len
        <5>1. cut[0] = 0 /\ cut[n] = len + 1 /\ len \in Nat
          BY <1>1, <1>2
        <5> QED
          BY <4>2, <5>1
      <4> QED
        BY <1>1, <4>2, <4>3 DEF Cuts, k
    <3> QED
      BY <3>1, <3>2
  <2> QED
    BY <2>1, <2>2
<1>7. ASSUME NEW i \in 1 .. n PROVE PairAt(q, cut[i - 1]) = Written(params[i])
  <2> DEFINE next == {j \in Cuts(q) : j > cut[i - 1]}
             least == CHOOSE j \in next : \A k \in next : j <= k
             stop == IF next = {} THEN len ELSE least - 1
  <2>1. PairAt(q, cut[i - 1]) = SubSeq(q, cut[i - 1] + 1, stop)
    BY DEF PairAt, len
  <2>2. stop = cut[i] - 1
    <3>1. CASE i = n
      <4>1. \A j \in 1 .. n : cut[j - 1] <= cut[n - 1]
        <5>1. ASSUME NEW j \in 1 .. n PROVE cut[j - 1] <= cut[n - 1]
          <6> DEFINE a == j - 1
                     b == n - 1
          <6>1. a \in 0 .. n /\ b \in 0 .. n /\ (a < b \/ a = b)
            BY <1>1
          <6> HIDE DEF a, b
          <6>2. cut[a] \in Int /\ cut[b] \in Int /\ (cut[a] < cut[b] \/ cut[a] = cut[b])
            BY <1>2, <1>3, <6>1
          <6>3. cut[a] <= cut[b]
            BY <6>2
          <6> QED
            BY <6>3 DEF a, b
        <5> QED
          BY <5>1
      <4>2. next = {}
        <5>1. \A j \in 1 .. n : cut[j - 1] \in Int /\ ~(cut[j - 1] > cut[n - 1])
          <6>1. \A j \in 1 .. n : j - 1 \in 0 .. n /\ n - 1 \in 0 .. n
            BY <1>1
          <6> QED
            BY <1>3, <4>1, <6>1
        <5> QED
          BY <1>6, <3>1, <5>1
      <4> QED
        BY <1>1, <1>2, <3>1, <4>2
    <3>2. CASE i # n
      <4>1. i + 1 \in 1 .. n /\ (i + 1) - 1 = i /\ i - 1 \in 0 .. n /\ i \in 0 .. n /\ i - 1 < i
        BY <1>1, <3>2
      <4>2. cut[i] \in next
        BY <1>2, <1>3, <1>6, <4>1
      <4>3. ASSUME NEW k \in next PROVE cut[i] <= k
        <5>1. PICK j \in 1 .. n : k = cut[j - 1]
          BY <1>6
        <5>2. j - 1 \in 0 .. n /\ cut[j - 1] > cut[i - 1]
          BY <1>1, <5>1
        <5> DEFINE a == j - 1
                   b == i - 1
        <5>3. a \in 0 .. n /\ b \in 0 .. n /\ i \in 0 .. n /\ cut[a] > cut[b] /\ i = b + 1
          BY <4>1, <5>2
        <5> HIDE DEF a, b
        <5>4. cut[a] \in Int /\ cut[b] \in Int /\ cut[i] \in Int /\ (a < b => cut[a] < cut[b])
          BY <1>2, <1>3, <5>3
        <5>5. ~(a < b) /\ a # b
          BY <5>3, <5>4
        <5>6. i < a \/ i = a
          BY <1>1, <5>3, <5>5
        <5>7. cut[i] < cut[a] \/ cut[i] = cut[a]
          BY <1>2, <5>3, <5>6
        <5>8. k = cut[a]
          BY <5>1 DEF a
        <5> QED
          BY <5>4, <5>7, <5>8
      <4>4. least \in next /\ \A k \in next : least <= k
        BY <4>2, <4>3
      <4>5. \A k \in next : k \in Int
        <5>1. \A j \in 1 .. n : j - 1 \in 0 .. n
          BY <1>1
        <5> QED
          BY <1>3, <1>6, <5>1
      <4> HIDE DEF least, next
      <4>6. least = cut[i]
        BY <4>2, <4>3, <4>4, <4>5
      <4> QED
        BY <4>2, <4>6
    <3> QED
      BY <3>1, <3>2
  <2> HIDE DEF stop
  <2> QED
    BY <1>2, <2>1, <2>2
<1>8. q # <<>>
  <2>1. params[1] \in Text \X Text /\ Sendable(params[1])
    BY <1>1, ElementOfSeq DEF n
  <2>2. Len(Written(params[1])) > 0
    BY <2>1, ParameterRead
  <2>3. SubSeq(q, cut[0] + 1, cut[1] - 1) = Written(params[1])
    <3>1. 1 \in 1 .. n /\ 1 - 1 = 0
      BY <1>1
    <3> QED
      BY <1>2, <3>1
  <2>4. cut[0] = 0 /\ cut[1] \in Int /\ cut[1] <= len + 1
    BY <1>1, <1>2, <1>3
  <2>5. CASE len = 0
    <3> DEFINE a == cut[0] + 1
               b == cut[1] - 1
    <3>1. a \in Int /\ b \in Int /\ b < a
      BY <2>4, <2>5
    <3> HIDE DEF a, b
    <3>2. SubSeq(q, a, b) = <<>>
      BY <3>1, SubSeqEmpty
    <3>3. Written(params[1]) = <<>>
      BY <2>3, <3>2 DEF a, b
    <3>4. FALSE
      BY <2>2, <3>3
    <3> QED
      BY <3>4
  <2> QED
    BY <2>5 DEF len
<1> QED
  BY <1>6, <1>7, <1>8 DEF n, len

\* What fits is read completely: the handler gets the parameters, each once.
LEMMA ParametersRead ==
  ASSUME NEW q \in Text, NEW params \in Seq(Text \X Text), Fits(q),
         \A i \in DOMAIN params : Sendable(params[i]), Carries(q, params)
  PROVE  extract_uri_parameters(q) = {params[i] : i \in DOMAIN params}
<1> DEFINE t == SubSeq(q, 1, IF Len(q) < MaxQuery THEN Len(q) ELSE MaxQuery)
           used == {i \in Cuts(q) : Cardinality({j \in Cuts(q) : j < i}) < MaxParams}
<1>1. t = q
  <2>1. (IF Len(q) < MaxQuery THEN Len(q) ELSE MaxQuery) = Len(q)
    BY HttpAssumption, LenProperties DEF Fits, Text
  <2>2. SubSeq(q, 1, Len(q)) = q
    BY SubSeqFull DEF Text
  <2> QED
    BY <2>1, <2>2
<1>2. extract_uri_parameters(q) = IF q = <<>> THEN {} ELSE {NameAndValue(PairAt(q, i)) : i \in used}
  BY <1>1 DEF extract_uri_parameters
<1>3. CASE params = <<>>
  BY <1>2, <1>3 DEF Carries
<1>4. CASE params # <<>>
  <2>1. q # <<>>
    BY <1>4, QueryCut
  <2>2. PICK cut \in [0 .. Len(params) -> 0 .. Len(q) + 1] :
           /\ Cuts(q) = {cut[i - 1] : i \in 1 .. Len(params)}
           /\ \A i \in 1 .. Len(params) : PairAt(q, cut[i - 1]) = Written(params[i])
    BY <1>4, QueryCut
  <2>3. IsFiniteSet(Cuts(q))
    <3>1. Len(q) \in Nat /\ DOMAIN q = 1 .. Len(q)
      BY LenProperties DEF Text
    <3>2. Cuts(q) \in SUBSET (0 .. Len(q))
      BY <3>1 DEF Cuts
    <3>3. IsFiniteSet(0 .. Len(q))
      BY <3>1, FS_Interval
    <3> QED
      BY <3>2, <3>3, FS_Subset
  <2>4. used = Cuts(q)
    <3>1. ASSUME NEW i \in Cuts(q) PROVE Cardinality({j \in Cuts(q) : j < i}) < MaxParams
      <4> DEFINE before == {j \in Cuts(q) : j < i}
                 others == Cuts(q) \ {i}
      <4>1. IsFiniteSet(others) /\ Cardinality(others) = Cardinality(Cuts(q)) - 1
        BY <2>3, <3>1, FS_RemoveElement
      <4>2. before \in SUBSET others
        <5>1. i \in Int
          BY LenProperties DEF Cuts, Text
        <5> QED
          BY <5>1
      <4> HIDE DEF before, others
      <4>3. IsFiniteSet(before) /\ Cardinality(before) <= Cardinality(others)
        BY <4>1, <4>2, FS_Subset
      <4>4. Cardinality(before) \in Nat /\ Cardinality(others) \in Nat /\ Cardinality(Cuts(q)) \in Nat
        BY <2>3, <4>1, <4>3, FS_CardinalityType
      <4>5. Cardinality(before) < MaxParams
        BY <4>1, <4>3, <4>4, HttpAssumption DEF Fits
      <4> QED
        BY <4>5 DEF before
    <3> QED
      BY <3>1
  <2>5. DOMAIN params = 1 .. Len(params)
    BY LenProperties
  <2>6. \A i \in 1 .. Len(params) : NameAndValue(PairAt(q, cut[i - 1])) = params[i]
    <3>1. ASSUME NEW i \in 1 .. Len(params) PROVE NameAndValue(Written(params[i])) = params[i]
      <4>1. params[i] \in Text \X Text /\ Sendable(params[i])
        BY <2>5, ElementOfSeq
      <4> QED
        BY <4>1, ParameterRead
    <3> QED
      BY <2>2, <3>1
  <2> HIDE DEF used
  <2>7. {NameAndValue(PairAt(q, c)) : c \in Cuts(q)} = {NameAndValue(PairAt(q, cut[i - 1])) : i \in 1 .. Len(params)}
    BY <2>2
  <2> QED
    BY <1>2, <2>1, <2>4, <2>5, <2>6, <2>7
<1> QED
  BY <1>3, <1>4

-----------------------------------------------------------------------------
(* Bounds.  While an upload is received, what was received is the sectors that *)
(* are full and the bytes in the buffer, and never more than was announced: so *)
(* a sector number stays within the staging half of the flash.                 *)

OtaFits(o) ==
    /\ o.expected \in 0 .. OTA_MAX_IMAGE_BYTES /\ o.received \in 0 .. OTA_MAX_IMAGE_BYTES
    /\ o.fill \in 0 .. SectorBytes - 1 /\ o.index \in 0 .. Sectors
    /\ o.st = "RECEIVING" => o.received <= o.expected /\ o.received = o.index * SectorBytes + o.fill
StateFits(h) == h.retries \in 0 .. MaxRetries - 1 /\ h.parts \in 0 .. MaxParts
ConnFits == \A c \in Conns : StateFits(hs[c]) /\ inflight[c] >= 0
ApplyFits ==
    /\ apply \in {"none", "started", "delay", "copy", "torn"}
    /\ pos \in 0 .. Sectors /\ length \in 0 .. OTA_MAX_IMAGE_BYTES
Bounded == OtaFits(ota) /\ ConnFits /\ ApplyFits /\ misread \in BOOLEAN

LEMMA SectorArithmetic ==
  /\ SectorBytes \in Nat /\ SectorBytes > 0 /\ Sectors \in Nat /\ OTA_MAX_IMAGE_BYTES \in Nat
  /\ OTA_MAX_IMAGE_BYTES = Sectors * SectorBytes
  /\ \A k \in Nat : /\ k \div SectorBytes \in Nat /\ k % SectorBytes \in 0 .. SectorBytes - 1
                    /\ k = ((k \div SectorBytes) * SectorBytes) + (k % SectorBytes)
  /\ \A j, k \in Int : (j + k) * SectorBytes = j * SectorBytes + k * SectorBytes /\ j * SectorBytes \in Int
  /\ \A j, k \in Int : j <= k => j * SectorBytes <= k * SectorBytes
  /\ \A j, k \in Int : j * SectorBytes <= k * SectorBytes => j <= k
<1>1. SectorBytes \in Nat /\ SectorBytes > 0 /\ Sectors \in Nat
  BY OtaAssumption
<1>2. OTA_MAX_IMAGE_BYTES \in Nat /\ OTA_MAX_IMAGE_BYTES = Sectors * SectorBytes
  BY <1>1 DEF OTA_MAX_IMAGE_BYTES
<1>3. \A k \in Nat : /\ k \div SectorBytes \in Nat /\ k % SectorBytes \in 0 .. SectorBytes - 1
                     /\ k = ((k \div SectorBytes) * SectorBytes) + (k % SectorBytes)
  <2> SUFFICES ASSUME NEW k \in Nat
               PROVE  /\ k \div SectorBytes \in Nat /\ k % SectorBytes \in 0 .. SectorBytes - 1
                      /\ k = ((k \div SectorBytes) * SectorBytes) + (k % SectorBytes)
    OBVIOUS
  <2>1. k \div SectorBytes \in Nat /\ k % SectorBytes \in Nat
    BY Sizes
  <2>2. k % SectorBytes < SectorBytes
    BY <1>1
  <2>3. k = SectorBytes * (k \div SectorBytes) + (k % SectorBytes)
    BY <1>1
  <2>4. SectorBytes * (k \div SectorBytes) = (k \div SectorBytes) * SectorBytes
    BY <1>1, <2>1
  <2> QED
    BY <1>1, <2>1, <2>2, <2>3, <2>4
<1>4. \A j, k \in Int : (j + k) * SectorBytes = j * SectorBytes + k * SectorBytes /\ j * SectorBytes \in Int
  BY <1>1
<1>5. \A j, k \in Int : j <= k => j * SectorBytes <= k * SectorBytes
  BY <1>1
<1>6. \A j, k \in Int : j * SectorBytes <= k * SectorBytes => j <= k
  <2>1. \A j, k \in Int : k + 1 <= j => k * SectorBytes + SectorBytes <= j * SectorBytes
    BY <1>1
  <2>2. \A j, k \in Int : j * SectorBytes \in Int /\ (j <= k \/ k + 1 <= j)
    BY <1>1
  <2> QED
    BY <1>1, <2>1, <2>2
<1> QED
  BY <1>1, <1>2, <1>3, <1>4, <1>5, <1>6

LEMMA BeginFits ==
  ASSUME NEW o \in OtaRecord, NEW c \in Conns, NEW len \in Nat, OtaFits(o)
  PROVE  OtaFits(httpd_post_begin(o, c, len))
<1> DEFINE b == httpd_post_begin(o, c, len)
<1>1. CASE Busy(o)
  BY <1>1 DEF httpd_post_begin
<1>2. CASE ~Busy(o) /\ ~GoodSize(len)
  <2>1. b = [o EXCEPT !.st = "ERROR"]
    BY <1>2 DEF httpd_post_begin
  <2> HIDE DEF b
  <2>2. b.st = "ERROR" /\ b.expected = o.expected /\ b.received = o.received /\ b.fill = o.fill /\ b.index = o.index
    BY <2>1 DEF OtaRecord
  <2> QED
    BY <2>2 DEF OtaFits, b
<1>3. CASE ~Busy(o) /\ GoodSize(len)
  <2>1. b = [st |-> "RECEIVING", conn |-> c, expected |-> len, received |-> 0, buf |-> {}, fill |-> 0,
             index |-> 0, crc |-> NoImage, stage |-> o.stage]
    BY <1>3 DEF httpd_post_begin, OtaRecord
  <2> HIDE DEF b
  <2>2. b.st = "RECEIVING" /\ b.expected = len /\ b.received = 0 /\ b.fill = 0 /\ b.index = 0
    BY <2>1
  <2>3. len \in 0 .. OTA_MAX_IMAGE_BYTES
    BY <1>3 DEF GoodSize
  <2>4. 0 = 0 * SectorBytes + 0 /\ 0 \in 0 .. SectorBytes - 1 /\ 0 \in 0 .. Sectors /\ 0 \in 0 .. OTA_MAX_IMAGE_BYTES
    BY SectorArithmetic
  <2> QED
    BY <2>2, <2>3, <2>4 DEF OtaFits, b
<1> QED
  BY <1>1, <1>2, <1>3

LEMMA ReceiveFits ==
  ASSUME NEW o \in OtaRecord, NEW c \in Conns, NEW img \in Images, NEW n \in Nat,
         NEW bad \in 0 .. Flushes(o, n), OtaFits(o)
  PROVE  OtaFits(httpd_post_receive_data(o, c, img, n, bad))
<1> DEFINE r == httpd_post_receive_data(o, c, img, n, bad)
           full == Flushes(o, n)
           fill == (o.fill + n) % SectorBytes
<1>1. CASE ~Owns(o, c)
  BY <1>1 DEF httpd_post_receive_data
<1>2. CASE Owns(o, c) /\ n > o.expected - o.received
  <2>1. r = [o EXCEPT !.st = "ERROR"]
    BY <1>2 DEF httpd_post_receive_data
  <2> HIDE DEF r
  <2>2. r.st = "ERROR" /\ r.expected = o.expected /\ r.received = o.received /\ r.fill = o.fill /\ r.index = o.index
    BY <2>1 DEF OtaRecord
  <2> QED
    BY <2>2 DEF OtaFits, r
<1>3. CASE Owns(o, c) /\ ~(n > o.expected - o.received)
  <2>1. r = StoreBytes(o, img, n, bad)
    BY <1>3 DEF httpd_post_receive_data
  <2>2. /\ o.expected \in 0 .. OTA_MAX_IMAGE_BYTES /\ o.received \in 0 .. OTA_MAX_IMAGE_BYTES
        /\ o.fill \in 0 .. SectorBytes - 1 /\ o.index \in 0 .. Sectors
        /\ o.received = o.index * SectorBytes + o.fill
    BY <1>3 DEF OtaFits, Owns
  <2>3. o.received + n <= o.expected
    BY <1>3, <2>2, SectorArithmetic
  <2>4. full \in Nat /\ fill \in 0 .. SectorBytes - 1 /\ o.fill + n = full * SectorBytes + fill
    <3>1. o.fill + n \in Nat
      BY <2>2, SectorArithmetic
    <3> QED
      BY <3>1, SectorArithmetic DEF Flushes
  <2> HIDE DEF full, fill
  <2>5. o.received + n = (o.index + full) * SectorBytes + fill
    <3>1. (o.index + full) * SectorBytes = o.index * SectorBytes + full * SectorBytes
          /\ o.index * SectorBytes \in Int /\ full * SectorBytes \in Int
      BY <2>2, <2>4, SectorArithmetic
    <3> QED
      BY <2>2, <2>4, <3>1, SectorArithmetic
  <2>6. o.index + full \in 0 .. Sectors /\ (o.index + full) * SectorBytes <= OTA_MAX_IMAGE_BYTES
    <3>1. o.index + full \in Int /\ (o.index + full) * SectorBytes \in Int
      BY <2>2, <2>4, SectorArithmetic
    <3>2. (o.index + full) * SectorBytes <= OTA_MAX_IMAGE_BYTES
      BY <2>2, <2>3, <2>4, <2>5, <3>1, SectorArithmetic
    <3>3. o.index + full <= Sectors
      BY <3>1, <3>2, SectorArithmetic
    <3> QED
      BY <2>2, <2>4, <3>2, <3>3, SectorArithmetic
  <2>7. CASE bad = 0
    <3>1. /\ r.st = o.st /\ r.expected = o.expected /\ r.received = o.received + n
          /\ r.fill = fill /\ r.index = o.index + full
      BY <2>1, <2>7 DEF StoreBytes, OtaRecord, full, fill
    <3>2. o.received + n \in 0 .. OTA_MAX_IMAGE_BYTES
      BY <2>2, <2>3, SectorArithmetic
    <3> HIDE DEF r
    <3> QED
      BY <2>2, <2>3, <2>4, <2>5, <2>6, <3>1, <3>2 DEF OtaFits, r
  <2>8. CASE bad # 0
    <3>1. /\ r.st = "ERROR" /\ r.expected = o.expected /\ r.received = o.received + bad * SectorBytes - o.fill
          /\ r.fill = 0 /\ r.index = o.index + bad
      BY <2>1, <2>8 DEF StoreBytes, OtaRecord
    <3> HIDE DEF r
    <3>2. bad \in 1 .. full
      BY <2>4, <2>8 DEF full
    <3>3. o.index + bad \in 0 .. Sectors
      BY <2>2, <2>4, <2>6, <3>2, SectorArithmetic
    <3>4. o.received + bad * SectorBytes - o.fill = (o.index + bad) * SectorBytes
      <4>1. (o.index + bad) * SectorBytes = o.index * SectorBytes + bad * SectorBytes
            /\ o.index * SectorBytes \in Int /\ bad * SectorBytes \in Int
        BY <2>2, <3>2, SectorArithmetic
      <4> QED
        BY <2>2, <4>1, SectorArithmetic
    <3>5. (o.index + bad) * SectorBytes \in 0 .. OTA_MAX_IMAGE_BYTES
      <4> DEFINE k == o.index + bad
      <4>1. k \in Int /\ 0 <= k /\ k <= Sectors /\ 0 \in Int /\ Sectors \in Int /\ 0 * SectorBytes = 0
        BY <3>3, SectorArithmetic
      <4> HIDE DEF k
      <4>2. k * SectorBytes \in Int /\ 0 * SectorBytes <= k * SectorBytes /\ k * SectorBytes <= Sectors * SectorBytes
        BY <4>1, SectorArithmetic
      <4>3. k * SectorBytes \in 0 .. OTA_MAX_IMAGE_BYTES
        BY <4>1, <4>2, SectorArithmetic
      <4> QED
        BY <4>3 DEF k
    <3>6. 0 \in 0 .. SectorBytes - 1
      BY SectorArithmetic
    <3> QED
      BY <2>2, <3>1, <3>3, <3>4, <3>5, <3>6 DEF OtaFits, r
  <2> QED
    BY <2>7, <2>8
<1> QED
  BY <1>1, <1>2, <1>3

LEMMA FinishedFits ==
  ASSUME NEW o \in OtaRecord, NEW c \in Conns, NEW ok \in BOOLEAN, OtaFits(o)
  PROVE  OtaFits(httpd_post_finished(o, c, ok))
<1> DEFINE flushed == flush_sector(o, ok)
           whole == (ok \/ o.fill = 0) /\ o.received = o.expected
           end == IF whole THEN "RECEIVED" ELSE "ERROR"
           ended == IF ~Owns(o, c) THEN o ELSE [flushed EXCEPT !.st = end]
           f == httpd_post_finished(o, c, ok)
<1>1. o.fill \in 0 .. SectorBytes - 1 /\ o.index \in 0 .. Sectors /\ 0 \in 0 .. SectorBytes - 1
  BY SectorArithmetic DEF OtaFits
<1>2. flushed \in OtaRecord /\ flushed.expected = o.expected /\ flushed.received = o.received
  BY Flushed
<1>3. Owns(o, c) => flushed.fill \in 0 .. SectorBytes - 1 /\ flushed.index \in 0 .. Sectors
  <2>1. CASE o.fill = 0
    BY <1>1, <2>1 DEF flush_sector
  <2>2. CASE o.fill # 0
    <3> SUFFICES ASSUME Owns(o, c) PROVE flushed.fill \in 0 .. SectorBytes - 1 /\ flushed.index \in 0 .. Sectors
      OBVIOUS
    <3>1. flushed.fill = 0 /\ flushed.index = o.index + 1
      BY <2>2 DEF flush_sector, OtaRecord
    <3>2. /\ o.received = o.index * SectorBytes + o.fill /\ o.received \in 0 .. OTA_MAX_IMAGE_BYTES
      BY DEF OtaFits, Owns
    <3>3. o.index * SectorBytes \in Int /\ o.index \in Int
      BY <1>1, SectorArithmetic
    <3>4. ~(Sectors <= o.index)
      <4>1. Sectors <= o.index => Sectors * SectorBytes <= o.index * SectorBytes
        BY <3>3, SectorArithmetic
      <4>2. o.index * SectorBytes < Sectors * SectorBytes
        BY <1>1, <2>2, <3>2, <3>3, SectorArithmetic
      <4> QED
        BY <3>3, <4>1, <4>2, SectorArithmetic
    <3>5. o.index + 1 \in 0 .. Sectors
      BY <1>1, <3>4, SectorArithmetic
    <3> HIDE DEF flushed
    <3> QED
      BY <1>1, <3>1, <3>5
  <2> QED
    BY <2>1, <2>2
<1>4. ended \in OtaRecord /\ OtaFits(ended)
  <2>1. CASE ~Owns(o, c)
    BY <2>1
  <2>2. CASE Owns(o, c)
    <3>1. end \in {"RECEIVED", "ERROR"} /\ end \in ota_state_t
      BY States
    <3> DEFINE g == [flushed EXCEPT !.st = end]
    <3>2. ended = g
      BY <2>2
    <3> HIDE DEF end, flushed, ended
    <3>3. g \in OtaRecord
      BY <1>2, <3>1, Changed
    <3>4. g.st = end /\ g.expected = o.expected /\ g.received = o.received /\ g.fill = flushed.fill /\ g.index = flushed.index
      BY <1>2 DEF OtaRecord
    <3> HIDE DEF g
    <3>5. OtaFits(g)
      BY <1>3, <2>2, <3>1, <3>4 DEF OtaFits
    <3> QED
      BY <3>2, <3>3, <3>5
  <2> QED
    BY <2>1, <2>2
<1>5. f = IF o.conn = c THEN [ended EXCEPT !.conn = NoConn] ELSE ended
  BY DEF httpd_post_finished
<1> HIDE DEF ended, f
<1>6. f.st = ended.st /\ f.expected = ended.expected /\ f.received = ended.received /\ f.fill = ended.fill
      /\ f.index = ended.index
  BY <1>4, <1>5 DEF OtaRecord
<1>7. OtaFits(f)
  BY <1>4, <1>6 DEF OtaFits
<1> QED
  BY <1>7 DEF f

LEMMA AnswerFits ==
  ASSUME NEW o \in OtaRecord, NEW params, NEW taskOk \in BOOLEAN, OtaFits(o)
  PROVE  OtaFits(http_rest_ota_state(o, params, taskOk))
<1>1. 0 \in 0 .. OTA_MAX_IMAGE_BYTES
  BY SectorArithmetic
<1>2. ASSUME NEW p, p.st # "RECEIVING", p.expected \in {0, o.expected}, p.received \in {0, o.received},
             p.fill = o.fill, p.index = o.index
      PROVE  OtaFits(p)
  BY <1>1, <1>2 DEF OtaFits
<1>3. OtaFits(OtaReset(o))
  <2>1. CASE Busy(o)
    BY <2>1 DEF OtaReset
  <2>2. CASE ~Busy(o)
    <3> DEFINE r == [o EXCEPT !.st = "IDLE", !.received = 0, !.expected = 0]
    <3>1. OtaReset(o) = r
      BY <2>2 DEF OtaReset
    <3>2. r.st = "IDLE" /\ r.expected = 0 /\ r.received = 0 /\ r.fill = o.fill /\ r.index = o.index
      BY DEF OtaRecord
    <3> HIDE DEF r
    <3> QED
      BY <1>2, <3>1, <3>2
  <2> QED
    BY <2>1, <2>2
<1>4. ASSUME NEW x \in Images PROVE OtaFits(OtaVerify(o, x))
  <2>1. CASE o.st # "RECEIVED"
    BY <2>1 DEF OtaVerify
  <2>2. CASE o.st = "RECEIVED"
    <3> DEFINE crc == IF Staged(o, x) THEN x ELSE NoImage
               st == IF Staged(o, x) /\ staged_image_plausible(o, x) THEN "VERIFIED" ELSE "ERROR"
               r == [o EXCEPT !.crc = crc, !.st = st]
    <3>1. OtaVerify(o, x) = r
      BY <2>2 DEF OtaVerify
    <3>2. st # "RECEIVING"
      OBVIOUS
    <3> HIDE DEF crc, st
    <3>3. r.st = st /\ r.expected = o.expected /\ r.received = o.received /\ r.fill = o.fill /\ r.index = o.index
      BY DEF OtaRecord
    <3> HIDE DEF r
    <3> QED
      BY <1>2, <3>1, <3>2, <3>3
  <2> QED
    BY <2>1, <2>2
<1>5. OtaFits(OtaApply(o, taskOk))
  <2>1. CASE o.st # "VERIFIED"
    BY <2>1 DEF OtaApply
  <2>2. CASE o.st = "VERIFIED"
    <3> DEFINE st == IF taskOk THEN "APPLYING" ELSE "ERROR"
               r == [o EXCEPT !.st = st]
    <3>1. OtaApply(o, taskOk) = r
      BY <2>2 DEF OtaApply
    <3>2. st # "RECEIVING"
      OBVIOUS
    <3> HIDE DEF st
    <3>3. r.st = st /\ r.expected = o.expected /\ r.received = o.received /\ r.fill = o.fill /\ r.index = o.index
      BY DEF OtaRecord
    <3> HIDE DEF r
    <3> QED
      BY <1>2, <3>1, <3>2, <3>3
  <2> QED
    BY <2>1, <2>2
<1>6. \/ http_rest_ota_state(o, params, taskOk) \in {o, OtaReset(o), OtaApply(o, taskOk)}
      \/ \E x \in Images : http_rest_ota_state(o, params, taskOk) = OtaVerify(o, x)
  BY DEF http_rest_ota_state
<1> QED
  BY <1>3, <1>4, <1>5, <1>6

\* The connections after a close and after a write.
LEMMA FreshFits == StateFits(http_state_init)
  BY HttpAssumption DEF StateFits, http_state_init

LEMMA ClosedFits ==
  ASSUME ConnInv, ConnFits, NEW c \in Conns, http_close_conn(c)
  PROVE  ConnFits'
<1>1. hs' = [hs EXCEPT ![c] = http_state_init] /\ inflight' = [inflight EXCEPT ![c] = 0]
  BY DEF http_close_conn, http_state_free
<1>2. StateFits(http_state_init)
  BY FreshFits
<1> QED
  BY <1>1, <1>2 DEF ConnInv, ConnTypes, ConnFits, StateFits

LEMMA SentFits ==
  ASSUME ConnInv, ConnFits, NEW c \in Conns, NEW h \in HttpState, NEW acked \in Int, acked <= inflight[c],
         StateFits(h), http_send(c, h, acked)
  PROVE  ConnFits'
<1>1. PICK n \in 0 .. h.unsent :
        IF n = h.unsent THEN http_close_conn(c)
        ELSE /\ hs' = [hs EXCEPT ![c] = [h EXCEPT !.unsent = @ - n]]
             /\ inflight' = [inflight EXCEPT ![c] = @ + n - acked]
             /\ image' = [image EXCEPT ![c] = NoImage]
             /\ pcb' = pcb
  BY DEF http_send, http_write
<1>2. CASE n = h.unsent
  BY <1>1, <1>2, ClosedFits
<1>3. CASE n # h.unsent
  <2> DEFINE k == [h EXCEPT !.unsent = @ - n]
  <2>1. k.retries = h.retries /\ k.parts = h.parts
    BY DEF HttpState
  <2>2. hs' = [hs EXCEPT ![c] = k] /\ inflight' = [inflight EXCEPT ![c] = @ + n - acked]
    BY <1>1, <1>3
  <2> HIDE DEF k
  <2>3. StateFits(k)
    BY <2>1 DEF StateFits
  <2>4. inflight[c] + n - acked >= 0 /\ inflight \in [Conns -> Int] /\ hs \in [Conns -> HttpState]
    BY DEF ConnInv, ConnTypes, HttpState
  <2> QED
    BY <2>2, <2>3, <2>4 DEF ConnFits, StateFits
<1> QED
  BY <1>2, <1>3

LEMMA PageFits ==
  ASSUME NEW h \in HttpState, NEW uri, StateFits(h)
  PROVE  StateFits(http_find_file(h, uri))
<1> DEFINE units == PageLen[rest_get_handler(uri)]
<1>1. http_find_file(h, uri) = [h EXCEPT !.handle = TRUE, !.unsent = units, !.retries = 0]
  BY DEF http_find_file, http_init_file
<1> HIDE DEF units
<1> DEFINE k == [h EXCEPT !.handle = TRUE, !.unsent = units, !.retries = 0]
<1>2. k.retries = 0 /\ k.parts = h.parts
  BY DEF HttpState
<1> HIDE DEF k
<1>3. StateFits(k)
  BY <1>2, HttpAssumption DEF StateFits
<1> QED
  BY <1>1, <1>3 DEF k

LEMMA BodyFits ==
  ASSUME ConnInv, ConnFits, NEW o \in OtaRecord, OtaFits(o), NEW c \in Conns, NEW h \in HttpState, StateFits(h),
         NEW img \in Images, NEW n \in 1 .. MaxSegment, http_post_rxpbuf(c, o, h, img, n)
  PROVE  ConnFits' /\ OtaFits(ota')
<1>1. PICK bad \in 0 .. Flushes(o, n) :
        LET received == httpd_post_receive_data(o, c, img, n, bad)
            left == IF ~Owns(received, c) \/ h.left < n THEN 0 ELSE h.left - n
        IN IF left = 0
           THEN /\ \E ok \in Outcomes(received.fill > 0) : ota' = httpd_post_finished(received, c, ok)
                /\ http_send(c, http_handle_post_finished(h), 0)
           ELSE /\ ota' = received
                /\ hs' = [hs EXCEPT ![c] = [h EXCEPT !.left = left]]
                /\ image' = [image EXCEPT ![c] = img]
                /\ UNCHANGED <<pcb, inflight>>
  BY DEF http_post_rxpbuf
<1> DEFINE received == httpd_post_receive_data(o, c, img, n, bad)
           left == IF ~Owns(received, c) \/ h.left < n THEN 0 ELSE h.left - n
<1>2. n \in Nat
  BY HttpAssumption
<1>3. received \in OtaRecord /\ OtaFits(received)
  BY <1>2, Receive, ReceiveFits
<1> HIDE DEF received
<1>4. CASE left = 0
  <2>1. PICK ok \in Outcomes(received.fill > 0) : ota' = httpd_post_finished(received, c, ok)
    BY <1>1, <1>4 DEF received
  <2>2. http_send(c, http_handle_post_finished(h), 0)
    BY <1>1, <1>4 DEF received
  <2>3. OtaFits(ota')
    BY <1>3, <2>1, OutcomesAreBooleans, FinishedFits
  <2> DEFINE k == [h EXCEPT !.left = 0]
  <2>4. k \in HttpState /\ k.left = 0 /\ k.retries = h.retries /\ k.parts = h.parts
    BY DEF HttpState
  <2>5. http_handle_post_finished(h) = http_find_file(k, "/rest/ota_state")
    BY DEF http_handle_post_finished
  <2> HIDE DEF k
  <2>6. StateFits(k)
    BY <2>4 DEF StateFits
  <2>7. http_find_file(k, "/rest/ota_state") \in HttpState /\ StateFits(http_find_file(k, "/rest/ota_state"))
    BY <2>4, <2>6, Page, PageFits
  <2>8. 0 <= inflight[c]
    BY DEF ConnFits, ConnInv, ConnTypes
  <2> QED
    BY <2>2, <2>3, <2>5, <2>7, <2>8, SentFits
<1>5. CASE left # 0
  <2>1. ota' = received /\ hs' = [hs EXCEPT ![c] = [h EXCEPT !.left = left]] /\ inflight' = inflight
    BY <1>1, <1>5 DEF received
  <2> HIDE DEF left
  <2> DEFINE k == [h EXCEPT !.left = left]
  <2>2. k.retries = h.retries /\ k.parts = h.parts
    BY DEF HttpState
  <2>3. hs' = [hs EXCEPT ![c] = k]
    BY <2>1
  <2> HIDE DEF k
  <2>4. StateFits(k)
    BY <2>2 DEF StateFits
  <2> QED
    BY <1>3, <2>1, <2>3, <2>4 DEF ConnFits, StateFits, ConnInv, ConnTypes
<1> QED
  BY <1>4, <1>5

LEMMA ConnectionFits ==
  ASSUME IInv, Bounded, NEW c \in Conns, Connection(c)
  PROVE  Bounded'
<1> USE DEF Bounded
<1>0. ConnInv /\ ota \in OtaRecord /\ hs[c] \in HttpState /\ StateFits(hs[c]) /\ 0 <= inflight[c] /\ inflight[c] \in Int
  BY DEF IInv, Firmware, OtaTypes, ConnInv, ConnTypes, ConnFits
\* What only a connection changes.
<1>1. ASSUME ConnFits', ota' = ota, UNCHANGED <<applyVars, misread>> PROVE Bounded'
  BY <1>1 DEF applyVars, ApplyFits
<1>2. ASSUME ConnFits', OtaFits(ota'), UNCHANGED <<applyVars, misread>> PROVE Bounded'
  BY <1>2 DEF applyVars, ApplyFits
<1>3. CASE http_accept(c)
  <2>1. ConnFits'
    BY <1>3 DEF http_accept, ConnFits
  <2> QED
    BY <1>1, <1>3, <2>1 DEF http_accept
<1>4. CASE http_parse_incomplete(c)
  <2>1. CASE hs[c].parts < MaxParts
    <3> DEFINE h == [hs[c] EXCEPT !.parts = @ + 1]
    <3>1. hs' = [hs EXCEPT ![c] = h] /\ inflight' = inflight
      BY <1>4, <2>1 DEF http_parse_incomplete
    <3>2. h.retries = hs[c].retries /\ h.parts = hs[c].parts + 1
      BY <1>0 DEF HttpState
    <3> HIDE DEF h
    <3>3. StateFits(h)
      BY <1>0, <2>1, <3>2, HttpAssumption DEF StateFits
    <3>4. ConnFits'
      BY <1>0, <3>1, <3>3 DEF ConnFits, StateFits, ConnInv, ConnTypes
    <3> QED
      BY <1>1, <1>4, <3>4 DEF http_parse_incomplete
  <2>2. CASE ~(hs[c].parts < MaxParts)
    BY <1>0, <1>1, <1>4, <2>2, ClosedFits DEF http_parse_incomplete
  <2> QED
    BY <2>1, <2>2
<1>5. ASSUME NEW r \in Requests, http_parse_get(c, r) PROVE Bounded'
  <2>1. PICK taskOk \in BOOLEAN :
          /\ ota' = IF r.uri = "/rest/ota_state"
                    THEN http_rest_ota_state(ota, extract_uri_parameters(r.query), taskOk) ELSE ota
          /\ apply' = IF ota'.st = "APPLYING" /\ ota.st = "VERIFIED" THEN "started" ELSE apply
          /\ misread' \in BOOLEAN
    BY <1>5, OutcomesAreBooleans DEF http_parse_get
  <2>2. OtaFits(ota')
    BY <1>0, <2>1, AnswerFits
  <2>3. ApplyFits'
    BY <1>5, <2>1 DEF http_parse_get, ApplyFits
  <2> DEFINE g == http_find_file(hs[c], r.uri)
             h == [g EXCEPT !.parts = 0]
  <2>4. g \in HttpState /\ StateFits(g)
    BY <1>0, <1>5, Page, PageFits DEF http_parse_get, Parsing
  <2> HIDE DEF g
  <2>5. h \in HttpState /\ h.retries = g.retries /\ h.parts = 0
    BY <2>4 DEF HttpState
  <2>6. http_send(c, h, 0)
    BY <1>5 DEF http_parse_get, g
  <2> HIDE DEF h
  <2>7. StateFits(h)
    BY <2>4, <2>5, HttpAssumption DEF StateFits
  <2>8. ConnFits'
    BY <1>0, <2>5, <2>6, <2>7, SentFits
  <2> QED
    BY <2>1, <2>2, <2>3, <2>8
<1>6. ASSUME NEW r \in Requests, http_parse_bad(c, r) PROVE Bounded'
  BY <1>0, <1>1, <1>6, ClosedFits DEF http_parse_bad
<1>7. ASSUME NEW r \in Requests, http_post_request(c, r) PROVE Bounded'
  <2> DEFINE upload == r.uri = "/ota/upload"
             accepted == upload /\ ~Busy(ota) /\ GoodSize(r.len)
             begun == IF upload THEN httpd_post_begin(ota, c, r.len) ELSE ota
             len == IF accepted THEN r.len ELSE 0
             h == [hs[c] EXCEPT !.parts = 0, !.left = len]
  <2>1. r.len \in Nat /\ r.image \in Images
    BY <1>7, HttpAssumption DEF http_post_request
  <2>2. begun \in OtaRecord /\ OtaFits(begun)
    BY <1>0, <2>1, Begin, BeginFits
  <2>3. h \in HttpState /\ StateFits(h) /\ (~accepted => h.left = 0)
    <3>1. len \in Nat
      BY <2>1
    <3>2. ~accepted => len = 0
      OBVIOUS
    <3> HIDE DEF len, accepted
    <3>3. [[hs[c] EXCEPT !.parts = 0] EXCEPT !.left = len] \in HttpState
      BY <1>0, <3>1, StateFields
    <3>4. h.retries = hs[c].retries /\ h.parts = 0 /\ h.left = len
      BY <1>0 DEF HttpState
    <3>5. StateFits(h)
      BY <1>0, <3>4, HttpAssumption DEF StateFits
    <3> QED
      BY <3>2, <3>3, <3>4, <3>5
  <2>4. \/ accepted /\ \E n \in 1 .. MaxSegment : http_post_rxpbuf(c, begun, h, r.image, n)
        \/ ota' = begun /\ hs' = [hs EXCEPT ![c] = h] /\ UNCHANGED <<pcb, inflight>>
        \/ ~accepted /\ ota' = begun
           /\ http_send(c, http_find_file(h, IF upload THEN "/rest/ota_state" ELSE "/404"), 0)
    BY <1>7 DEF http_post_request
  <2>5. UNCHANGED <<applyVars, misread>>
    BY <1>7 DEF http_post_request
  <2> HIDE DEF accepted, begun, h, upload
  <2>6. CASE \E n \in 1 .. MaxSegment : http_post_rxpbuf(c, begun, h, r.image, n)
    BY <1>0, <1>2, <2>1, <2>2, <2>3, <2>5, <2>6, BodyFits
  <2>7. CASE ota' = begun /\ hs' = [hs EXCEPT ![c] = h] /\ UNCHANGED <<pcb, inflight>>
    <3>1. ConnFits'
      BY <1>0, <2>3, <2>7 DEF ConnFits, StateFits, ConnInv, ConnTypes
    <3> QED
      BY <1>2, <2>2, <2>5, <2>7, <3>1
  <2>8. CASE ~accepted /\ ota' = begun
             /\ http_send(c, http_find_file(h, IF upload THEN "/rest/ota_state" ELSE "/404"), 0)
    <3> DEFINE uri == IF upload THEN "/rest/ota_state" ELSE "/404"
    <3>1. http_send(c, http_find_file(h, uri), 0)
      BY <2>8
    <3> HIDE DEF uri
    <3>2. http_find_file(h, uri) \in HttpState /\ StateFits(http_find_file(h, uri))
      BY <2>3, <2>8, Page, PageFits
    <3>3. ConnFits'
      BY <1>0, <3>1, <3>2, SentFits
    <3> QED
      BY <1>2, <2>2, <2>5, <2>8, <3>3
  <2> QED
    BY <2>4, <2>6, <2>7, <2>8
<1>8. CASE http_recv_post_data(c)
  <2> DEFINE h == [hs[c] EXCEPT !.retries = 0]
  <2>1. PICK n \in 1 .. MaxSegment : http_post_rxpbuf(c, ota, h, image[c], n)
    BY <1>8 DEF http_recv_post_data
  <2>2. h \in HttpState /\ h.retries = 0 /\ h.parts = hs[c].parts
    BY <1>0 DEF HttpState
  <2> HIDE DEF h
  <2>3. StateFits(h)
    BY <1>0, <2>2, HttpAssumption DEF StateFits
  <2>4. image[c] \in Images
    BY <1>8 DEF http_recv_post_data, IInv, ConnInv, Uploads
  <2>5. ConnFits' /\ OtaFits(ota')
    BY <1>0, <2>1, <2>2, <2>3, <2>4, BodyFits
  <2> QED
    BY <1>2, <1>8, <2>5 DEF http_recv_post_data
\* The end of a connection, with or without an upload.
<1>9. ASSUME http_close_conn(c), UNCHANGED <<applyVars, misread>>,
             \E tried : \E ok \in Outcomes(tried) :
                ota' = IF hs[c].left > 0 THEN httpd_post_finished(ota, c, ok) ELSE ota
      PROVE  Bounded'
  <2>1. ConnFits'
    BY <1>0, <1>9, ClosedFits
  <2>2. OtaFits(ota')
    BY <1>0, <1>9, OutcomesAreBooleans, FinishedFits
  <2> QED
    BY <1>2, <1>9, <2>1, <2>2
<1>10. CASE http_recv_fin(c)
  BY <1>9, <1>10 DEF http_recv_fin
<1>11. CASE http_err(c)
  <2>1. hs' = [hs EXCEPT ![c] = http_state_init] /\ inflight' = [inflight EXCEPT ![c] = 0]
    BY <1>11 DEF http_err, http_state_free
  <2>2. ConnFits'
    BY <1>0, <2>1, FreshFits DEF ConnFits, StateFits, ConnInv, ConnTypes
  <2> QED
    BY <1>1, <1>11, <2>2 DEF http_err
<1>12. CASE http_sent(c)
  <2> DEFINE h == [hs[c] EXCEPT !.retries = 0]
  <2>1. h \in HttpState /\ h.retries = 0 /\ h.parts = hs[c].parts
    BY <1>0 DEF HttpState
  <2>2. http_send(c, h, inflight[c])
    BY <1>12 DEF http_sent
  <2> HIDE DEF h
  <2>3. StateFits(h)
    BY <1>0, <2>1, HttpAssumption DEF StateFits
  <2>4. ConnFits'
    BY <1>0, <2>1, <2>2, <2>3, SentFits
  <2> QED
    BY <1>1, <1>12, <2>4 DEF http_sent
<1>13. CASE http_poll(c)
  <2>1. UNCHANGED <<applyVars, misread>>
    BY <1>13 DEF http_poll
  <2>2. CASE http_close_conn(c) /\ ota' = ota
    BY <1>0, <1>1, <2>1, <2>2, ClosedFits
  <2>3. CASE /\ http_close_conn(c)
             /\ \E ok \in Outcomes(hs[c].left > 0 /\ ota.fill > 0) :
                   ota' = IF hs[c].left > 0 THEN httpd_post_finished(ota, c, ok) ELSE ota
    BY <1>9, <2>1, <2>3
  <2> DEFINE h == [hs[c] EXCEPT !.retries = @ + 1]
  <2>4. h \in HttpState /\ h.retries = hs[c].retries + 1 /\ h.parts = hs[c].parts
    BY <1>0 DEF HttpState
  <2> HIDE DEF h
  <2>5. hs[c].retries + 1 < MaxRetries => StateFits(h)
    BY <1>0, <2>4, HttpAssumption DEF StateFits
  <2>6. CASE hs[c].retries + 1 < MaxRetries /\ hs' = [hs EXCEPT ![c] = h] /\ inflight' = inflight /\ ota' = ota
    <3>1. ConnFits'
      BY <1>0, <2>5, <2>6 DEF ConnFits, StateFits, ConnInv, ConnTypes
    <3> QED
      BY <1>1, <2>1, <2>6, <3>1
  <2>7. CASE hs[c].retries + 1 < MaxRetries /\ http_send(c, h, 0) /\ ota' = ota
    <3>1. ConnFits'
      BY <1>0, <2>4, <2>5, <2>7, SentFits
    <3> QED
      BY <1>1, <2>1, <2>7, <3>1
  <2> QED
    BY <1>13, <2>2, <2>3, <2>6, <2>7 DEF http_poll, h
<1> QED
  BY <1>3, <1>4, <1>5, <1>6, <1>7, <1>8, <1>10, <1>11, <1>12, <1>13 DEF Connection

LEMMA RestartFits ==
  ASSUME IInv, Restart, misread \in BOOLEAN, apply' \in {"none", "torn"}
  PROVE  Bounded'
<1>1. ConnFits'
  BY FreshFits DEF Restart, ConnFits, StateFits
<1>2. OtaFits(ota')
  <2>1. ota' = [st |-> "IDLE", conn |-> NoConn, expected |-> 0, received |-> 0, buf |-> {}, fill |-> 0,
                index |-> 0, crc |-> NoImage, stage |-> ota.stage]
    BY DEF Restart, ota_init
  <2>2. ota'.st = "IDLE" /\ ota'.expected = 0 /\ ota'.received = 0 /\ ota'.fill = 0 /\ ota'.index = 0
    BY <2>1
  <2> QED
    BY <2>2, SectorArithmetic DEF OtaFits
<1>3. ApplyFits'
  BY SectorArithmetic DEF Restart, ApplyFits
<1> QED
  BY <1>1, <1>2, <1>3 DEF Restart, Bounded

LEMMA NextBounded == IInv /\ Bounded /\ [Next]_vars => Bounded'
<1> SUFFICES ASSUME IInv, Bounded, [Next]_vars PROVE Bounded'
  OBVIOUS
<1>1. CASE UNCHANGED vars
  BY <1>1 DEF vars, httpVars, applyVars, Bounded, ConnFits, ApplyFits
<1>2. ASSUME NEW c \in Conns, Connection(c) PROVE Bounded'
  BY <1>2, ConnectionFits
<1>3. CASE ota_apply_task
  <2>1. ota.received \in 0 .. OTA_MAX_IMAGE_BYTES
    BY DEF Bounded, OtaFits
  <2> QED
    BY <1>3, <2>1 DEF ota_apply_task, httpVars, Bounded, ConnFits, ApplyFits
<1>4. CASE ota_apply_refused
  <2>1. ota' = [ota EXCEPT !.st = "ERROR"] /\ ota \in OtaRecord
    BY <1>4 DEF ota_apply_refused, IInv, Firmware, OtaTypes
  <2>2. ota'.st = "ERROR" /\ ota'.expected = ota.expected /\ ota'.received = ota.received /\ ota'.fill = ota.fill
        /\ ota'.index = ota.index
    BY <2>1 DEF OtaRecord
  <2>3. OtaFits(ota')
    BY <2>2 DEF Bounded, OtaFits
  <2> QED
    BY <1>4, <2>3 DEF ota_apply_refused, httpVars, Bounded, ConnFits, ApplyFits
<1>5. CASE ota_apply_start
  BY <1>5, SectorArithmetic DEF ota_apply_start, httpVars, Bounded, ConnFits, ApplyFits
<1>6. CASE ota_apply_job
  <2>1. pos + 1 \in 0 .. Sectors
    BY <1>6, SectorArithmetic DEF ota_apply_job, SectorsOf, Sector
  <2> QED
    BY <1>6, <2>1 DEF ota_apply_job, httpVars, Bounded, ConnFits, ApplyFits
<1>7. CASE ota_apply_reset
  BY <1>7, RestartFits DEF ota_apply_reset, Bounded
<1>8. CASE software_reboot
  BY <1>8, RestartFits DEF software_reboot, Bounded
<1> QED
  BY <1>1, <1>2, <1>3, <1>4, <1>5, <1>6, <1>7, <1>8 DEF Next, ApplyTask

LEMMA InitBounded == Init => Bounded
<1> SUFFICES ASSUME Init PROVE Bounded
  OBVIOUS
<1>1. ConnFits
  <2>1. \A c \in Conns : hs[c] = http_state_init /\ inflight[c] = 0
    BY DEF Init
  <2>2. ASSUME NEW c \in Conns PROVE StateFits(hs[c]) /\ inflight[c] >= 0
    BY <2>1, FreshFits
  <2> QED
    BY <2>2 DEF ConnFits
<1>2. OtaFits(ota)
  BY SectorArithmetic DEF Init, ota_init, OtaFits
<1>3. ApplyFits
  BY SectorArithmetic DEF Init, ApplyFits
<1>4. misread \in BOOLEAN
  BY DEF Init
<1> QED
  BY <1>1, <1>2, <1>3, <1>4 DEF Bounded

-----------------------------------------------------------------------------
(* The theorems. *)

\* The server and the updater count the same missing bytes of the same upload, for
\* every set of connections, requests and images (http_rest.c:1758, ota.c:243).
THEOREM UploadsAgree == Spec => []UploadAccounting
<1>1. IInv => UploadAccounting
  BY DEF IInv
<1> QED
  BY InitInv, NextInv, <1>1, PTL DEF Spec

\* Unless the power fails in the middle of the copy, what runs is one whole image
\* that was staged, verified and plausible, or the first one (ota.c:100-170).
THEOREM FirmwareIsWhole == Spec => []RunningIsWhole
<1>1. IInv => RunningIsWhole
  BY DEF IInv, Firmware
<1> QED
  BY InitInv, NextInv, <1>1, PTL DEF Spec

\* Every field keeps its type; a sector that is written, staged or copied, is one of the
\* flash, however the bytes of an upload are cut into segments (ota.c:227).
THEOREM TypeCorrect == Spec => []TypeOK
<1>1. ASSUME IInv, Bounded PROVE TypeOK
  <2>1. hs \in [Conns -> Connected]
    <3>1. ASSUME NEW c \in Conns PROVE hs[c] \in Connected
      <4>1. hs[c] \in HttpState /\ StateFits(hs[c])
        BY <1>1 DEF IInv, ConnInv, ConnTypes, Bounded, ConnFits
      <4>2. hs[c].left \in 0 .. OTA_MAX_IMAGE_BYTES
        <5>1. hs[c].left > 0 => ota.expected - ota.received = hs[c].left
          BY <1>1 DEF IInv, UploadAccounting
        <5>2. ota.expected \in 0 .. OTA_MAX_IMAGE_BYTES /\ ota.received \in 0 .. OTA_MAX_IMAGE_BYTES
          BY <1>1 DEF Bounded, OtaFits
        <5>3. hs[c].left \in Nat
          BY <4>1 DEF HttpState
        <5> QED
          BY <5>1, <5>2, <5>3, SectorArithmetic
      <4>3. hs[c].retries \in 0 .. MaxRetries - 1 /\ hs[c].parts \in 0 .. MaxParts
        BY <4>1 DEF StateFits
      <4> QED
        BY <4>1, <4>2, <4>3 DEF HttpState, Connected
    <3>2. hs \in [Conns -> HttpState]
      BY <1>1 DEF IInv, ConnInv, ConnTypes
    <3> QED
      BY <3>1, <3>2
  <2>2. inflight \in [Conns -> Nat]
    BY <1>1 DEF IInv, ConnInv, ConnTypes, Bounded, ConnFits
  <2>3. ota \in [st : ota_state_t, conn : Conns \union {NoConn}, expected : 0 .. OTA_MAX_IMAGE_BYTES,
                 received : 0 .. OTA_MAX_IMAGE_BYTES, buf : Content, fill : 0 .. SectorBytes - 1,
                 index : 0 .. Sectors, crc : Images \union {NoImage}, stage : [Sector -> Content]]
    <3>1. ota \in OtaRecord
      BY <1>1 DEF IInv, Firmware, OtaTypes
    <3>2. ota.expected \in 0 .. OTA_MAX_IMAGE_BYTES /\ ota.received \in 0 .. OTA_MAX_IMAGE_BYTES
          /\ ota.fill \in 0 .. SectorBytes - 1 /\ ota.index \in 0 .. Sectors
      BY <1>1 DEF Bounded, OtaFits
    <3> HIDE DEF ota_state_t, Content, OTA_MAX_IMAGE_BYTES
    <3> QED
      BY <3>1, <3>2 DEF OtaRecord
  <2> QED
    BY <1>1, <2>1, <2>2, <2>3 DEF TypeOK, IInv, ConnInv, ConnTypes, Firmware, OtaTypes, Bounded, ApplyFits
<1> QED
  BY InitInv, NextInv, InitBounded, NextBounded, <1>1, PTL DEF Spec

\* A handler gets the names and values that the client sent, whatever these contain and
\* however many there are, as long as the query fits (http_rest.c:2885).
THEOREM HandlersGetWhatWasSent == Spec => []ParamsAsSent
<1>1. Init => ParamsAsSent
  BY DEF Init, ParamsAsSent
<1>2. ASSUME ParamsAsSent, [Next]_vars PROVE ParamsAsSent'
  <2>1. ASSUME NEW c \in Conns, NEW r \in Requests, http_parse_get(c, r) PROVE ~misread'
    <3>1. /\ r.query \in Text /\ r.params \in Seq(Text \X Text)
          /\ \A i \in DOMAIN r.params : Sendable(r.params[i])
          /\ Carries(r.query, r.params)
      BY <2>1, ClientAssumption DEF http_parse_get, Text
    <3>2. Fits(r.query) => extract_uri_parameters(r.query) = {r.params[i] : i \in DOMAIN r.params}
      BY <3>1, ParametersRead
    <3>3. misread' = (misread \/ (r.uri \in Handlers /\ Fits(r.query)
                                  /\ extract_uri_parameters(r.query) # {r.params[i] : i \in DOMAIN r.params}))
      BY <2>1 DEF http_parse_get
    <3>4. ~misread
      BY <1>2 DEF ParamsAsSent
    <3> QED
      BY <3>2, <3>3, <3>4, Zenon
  <2>2. ASSUME NEW c \in Conns, Connection(c) PROVE ~misread'
    <3> USE <1>2 DEF ParamsAsSent
    <3>1. CASE http_accept(c)
      BY <3>1 DEF http_accept
    <3>2. CASE http_parse_incomplete(c)
      BY <3>2 DEF http_parse_incomplete
    <3>3. CASE http_recv_post_data(c)
      BY <3>3 DEF http_recv_post_data
    <3>4. CASE http_recv_fin(c)
      BY <3>4 DEF http_recv_fin
    <3>5. CASE http_err(c)
      BY <3>5 DEF http_err
    <3>6. CASE http_sent(c)
      BY <3>6 DEF http_sent
    <3>7. CASE http_poll(c)
      BY <3>7 DEF http_poll
    <3>8. CASE \E r \in Requests : http_parse_get(c, r)
      BY <3>8, <2>1
    <3>9. CASE \E r \in Requests : http_parse_bad(c, r)
      BY <3>9 DEF http_parse_bad
    <3>10. CASE \E r \in Requests : http_post_request(c, r)
      BY <3>10 DEF http_post_request
    <3> QED
      BY <2>2, <3>1, <3>2, <3>3, <3>4, <3>5, <3>6, <3>7, <3>8, <3>9, <3>10 DEF Connection
  <2>3. CASE ApplyTask
    BY <1>2, <2>3 DEF ApplyTask, ota_apply_task, ota_apply_refused, ota_apply_start, ota_apply_job, ota_apply_reset,
                      Restart, ParamsAsSent
  <2>4. CASE software_reboot
    BY <1>2, <2>4 DEF software_reboot, Restart, ParamsAsSent
  <2> QED
    BY <1>2, <2>2, <2>3, <2>4 DEF Next, vars, ParamsAsSent
<1> QED
  BY <1>1, <1>2, PTL DEF Spec
=============================================================================

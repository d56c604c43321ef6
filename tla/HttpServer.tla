----------------------------- MODULE HttpServer -----------------------------
(***************************************************************************)
(* The HTTP server of src/http_rest.c on the TCP/IP thread, with the       *)
(* firmware upload of src/ota.c behind its POST hooks: connections that    *)
(* are accepted, parsed, answered in as many writes as the memory of the   *)
(* network stack asks for, polled, closed and reset; the request table;    *)
(* the splitting and decoding of query parameters; the task that applies   *)
(* an update, and a power loss or reboot at any point.                     *)
(*                                                                         *)
(* One action is one callback of the network stack.  A client sends the    *)
(* request it was given in pieces of its own choosing and may stop, close  *)
(* or reset at any time.                                                   *)
(***************************************************************************)
EXTENDS Ota, Sequences, FiniteSets

CONSTANTS
    Requests,     \* what a client may ask: [method, uri, query, params, len, image]
    Handlers,     \* registered URIs
    PageLen,      \* length of each handler's reply, in write units
    Decoded,      \* the character an escape stands for
    Escape,       \* the escape a client writes for a character
    MaxQuery,     \* LWIP_HTTPD_MAX_REQUEST_URI_LEN - 1
    MaxParams,    \* LWIP_HTTPD_MAX_CGI_PARAMETERS
    MaxParts,     \* pieces a request header may come in (LWIP_HTTPD_REQ_QUEUELEN)
    MaxSegment,   \* body bytes one callback may deliver
    MaxRetries,   \* HTTPD_MAX_RETRIES
    None          \* no value

ASSUME HttpAssumption ==
    /\ "/404" \in Handlers
    /\ PageLen \in [Handlers -> Nat \ {0}]
    /\ MaxRetries \in Nat \ {0} /\ MaxSegment \in Nat
    /\ MaxQuery \in Nat /\ MaxParams \in Nat /\ MaxParts \in Nat
    /\ \A r \in Requests : r.len \in Nat /\ (r.method = "POST" => r.image \in Images)

VARIABLES
    pcb,      \* per connection: free, open (with an http_state), or closing (without)
    hs,       \* its struct http_state
    image,    \* the image its client uploads
    inflight, \* reply units written and not acknowledged
    ota,      \* src/ota.c, see module Ota
    apply,    \* the apply task: none, started, delay, copy; torn: the power failed in copy
    pos,      \* sectors copied so far
    length,   \* the task's len (rounding it up to whole sectors changes nothing)
    running,  \* the running half of the flash
    misread   \* a handler was given other parameters than the client sent

httpVars == <<pcb, hs, image, inflight>>
applyVars == <<apply, pos, length, running>>
vars == <<httpVars, ota, applyVars, misread>>

http_state_init == [left |-> 0, handle |-> FALSE, unsent |-> 0, retries |-> 0, parts |-> 0]

Init ==
    /\ pcb = [c \in Conns |-> "free"]
    /\ hs = [c \in Conns |-> http_state_init]
    /\ image = [c \in Conns |-> NoImage]
    /\ inflight = [c \in Conns |-> 0]
    /\ ota = ota_init
    /\ apply = "none" /\ pos = 0 /\ length = 0
    /\ running = [s \in Sector |-> {OldImage}]
    /\ misread = FALSE

-----------------------------------------------------------------------------
(* Query parameters: cut at "&", then at the first "=", then decoded. *)

Cuts(q) == {0} \union {i \in DOMAIN q : q[i] = "&"}
PairAt(q, i) ==
    LET next == {j \in Cuts(q) : j > i}
        end == IF next = {} THEN Len(q) ELSE (CHOOSE j \in next : \A k \in next : j <= k) - 1
    IN SubSeq(q, i + 1, end)

decode_uri(s) == [i \in DOMAIN s |-> IF s[i] \in DOMAIN Decoded THEN Decoded[s[i]] ELSE s[i]]

NameAndValue(p) ==
    LET eq == {i \in DOMAIN p : p[i] = "="}
        first == CHOOSE i \in eq : \A k \in eq : i <= k
    IN IF eq = {} THEN <<p, None>>
       ELSE <<SubSeq(p, 1, first - 1), decode_uri(SubSeq(p, first + 1, Len(p)))>>

\* mutant: decoded before it is split
DecodeThenSplit(query) ==
    LET q == decode_uri(SubSeq(query, 1, IF Len(query) < MaxQuery THEN Len(query) ELSE MaxQuery))
        used == {i \in Cuts(q) : Cardinality({j \in Cuts(q) : j < i}) < MaxParams}
    IN IF q = <<>> THEN {} ELSE {NameAndValue(PairAt(q, i)) : i \in used}

\* The set of <<name, value>> the handler sees; what is too long is cut off.
extract_uri_parameters(query) ==
    LET q == SubSeq(query, 1, IF Len(query) < MaxQuery THEN Len(query) ELSE MaxQuery)
        used == {i \in Cuts(q) : Cardinality({j \in Cuts(q) : j < i}) < MaxParams}
    IN IF q = <<>> THEN {} ELSE {NameAndValue(PairAt(q, i)) : i \in used}

Fits(query) == Len(query) <= MaxQuery /\ Cardinality(Cuts(query)) <= MaxParams

\* What a client makes of a value, and of a parameter <<name, value>>.
Encode(value) == [i \in DOMAIN value |-> IF value[i] \in DOMAIN Escape THEN Escape[value[i]] ELSE value[i]]
Written(p) == p[1] \o <<"=">> \o Encode(p[2])

\* A query is its parameters as they are written, with a "&" between two of them:
\* cut[i] is where the i-th ends.
Carries(query, params) ==
    IF params = <<>> THEN query = <<>>
    ELSE \E cut \in [0 .. Len(params) -> 0 .. Len(query) + 1] :
            /\ cut[0] = 0 /\ cut[Len(params)] = Len(query) + 1
            /\ \A i, j \in 0 .. Len(params) : i < j => cut[i] < cut[j]
            /\ \A i \in 1 .. Len(params) :
                  /\ SubSeq(query, cut[i - 1] + 1, cut[i] - 1) = Written(params[i])
                  /\ i < Len(params) => query[cut[i]] = "&"

\* A name is plain text; of a value, all that means something to the server is escaped.
Sendable(p) ==
    /\ \A k \in DOMAIN p[1] : p[1][k] \notin {"&", "="}
    /\ \A k \in DOMAIN p[2] : p[2][k] \in DOMAIN Escape \/ p[2][k] \notin DOMAIN Decoded

ASSUME ClientAssumption ==
    /\ "&" \in DOMAIN Escape
    /\ \A ch \in DOMAIN Escape : Escape[ch] \in DOMAIN Decoded /\ Decoded[Escape[ch]] = ch /\ Escape[ch] # "&"
    /\ \A r \in Requests : r.method = "GET" =>
          /\ r.query \in Seq(STRING) /\ r.params \in Seq(Seq(STRING) \X Seq(STRING))
          /\ \A i \in DOMAIN r.params : Sendable(r.params[i])
          /\ Carries(r.query, r.params)

-----------------------------------------------------------------------------
(* The request table and the handler of /rest/ota_state. *)

rest_get_handler(uri) == IF uri \in Handlers THEN uri ELSE "/404"

http_rest_ota_state(o, params, taskOk) ==
    LET action(a) == <<<<"a0">>, <<a>>>> \in params
        crc == {x \in Images : <<<<"crc">>, <<x>>>> \in params}
    IN IF action("reset") THEN OtaReset(o)
       ELSE IF action("verify") /\ crc # {} THEN OtaVerify(o, CHOOSE x \in crc : TRUE)
       ELSE IF action("apply") THEN OtaApply(o, taskOk)
       ELSE o

\* The page a request ends with, and the state its handler starts to send from.
http_init_file(h, page) == [h EXCEPT !.handle = TRUE, !.unsent = PageLen[page], !.retries = 0]
http_find_file(h, uri) == http_init_file(h, rest_get_handler(uri))

\* The POST is over, by its length or by an error of the application.
http_handle_post_finished(h) == http_find_file([h EXCEPT !.left = 0], "/rest/ota_state")

-----------------------------------------------------------------------------
(* Closing, and writing as much of the reply as fits. *)

\* What an operation that may fail can return, when it is tried at all.
Outcomes(tried) == IF tried THEN BOOLEAN ELSE {TRUE}

http_state_free(c) ==
    /\ hs' = [hs EXCEPT ![c] = http_state_init]
    /\ image' = [image EXCEPT ![c] = NoImage]
    /\ inflight' = [inflight EXCEPT ![c] = 0]

\* The struct http_state is freed.  When the stack has no memory for the FIN the
\* connection stays, without state, until the next poll; that poll succeeds.
http_close_conn(c) ==
    /\ \E closed \in BOOLEAN :
          /\ pcb[c] = "closing" => closed
          /\ pcb' = [pcb EXCEPT ![c] = IF closed THEN "free" ELSE "closing"]
    /\ http_state_free(c)

\* What a write of the rest may take; nothing when the stack is out of memory.
http_write(h) == 0 .. h.unsent

\* Writes n units and closes at the end; acked units were acknowledged just now.
\* From here on what the client still sends is thrown away.
http_send(c, h, acked) ==
    \E n \in http_write(h) :
        IF n = h.unsent THEN http_close_conn(c)
        ELSE /\ hs' = [hs EXCEPT ![c] = [h EXCEPT !.unsent = @ - n]]
             /\ inflight' = [inflight EXCEPT ![c] = @ + n - acked]
             /\ image' = [image EXCEPT ![c] = NoImage]
             /\ pcb' = pcb

-----------------------------------------------------------------------------
(* Callbacks of the network stack.  Nothing runs while an image is copied. *)

Idle == apply \notin {"copy", "torn"}

http_accept(c) ==
    /\ Idle /\ pcb[c] = "free"
    /\ pcb' = [pcb EXCEPT ![c] = "open"]
    /\ UNCHANGED <<hs, image, inflight, ota, applyVars, misread>>

Parsing(c) == Idle /\ pcb[c] = "open" /\ hs[c].left = 0 /\ ~hs[c].handle

\* A piece of a header without its end is kept; one piece too many is an error.
http_parse_incomplete(c) ==
    /\ Parsing(c)
    /\ IF hs[c].parts < MaxParts
       THEN /\ hs' = [hs EXCEPT ![c].parts = @ + 1]
            /\ UNCHANGED <<pcb, image, inflight>>
       ELSE http_close_conn(c)
    /\ UNCHANGED <<ota, applyVars, misread>>

http_parse_get(c, r) ==
    /\ Parsing(c) /\ r.method = "GET"
    /\ LET params == extract_uri_parameters(r.query)
       IN \E taskOk \in Outcomes(ota.st = "VERIFIED") :
             /\ ota' = IF r.uri = "/rest/ota_state" THEN http_rest_ota_state(ota, params, taskOk) ELSE ota
             /\ apply' = IF ota'.st = "APPLYING" /\ ota.st = "VERIFIED" THEN "started" ELSE apply
             /\ misread' = (misread \/ (r.uri \in Handlers /\ Fits(r.query) /\ params # {r.params[i] : i \in DOMAIN r.params}))
    /\ http_send(c, [http_find_file(hs[c], r.uri) EXCEPT !.parts = 0], 0)
    /\ UNCHANGED <<pos, length, running>>

\* A method that is neither GET nor POST, or a POST without a usable length.
http_parse_bad(c, r) ==
    /\ Parsing(c) /\ r.method = "BAD"
    /\ http_close_conn(c)
    /\ UNCHANGED <<ota, applyVars, misread>>

\* n of the body bytes of img arrive; the reply starts once the body is over or
\* refused.
http_post_rxpbuf(c, o, h, img, n) ==
    \E bad \in 0 .. Flushes(o, n) :
        LET received == httpd_post_receive_data(o, c, img, n, bad)
            left == IF ~Owns(received, c) \/ h.left < n THEN 0 ELSE h.left - n
        IN IF left = 0
           THEN /\ \E ok \in Outcomes(received.fill > 0) : ota' = httpd_post_finished(received, c, ok)
                /\ http_send(c, http_handle_post_finished(h), 0)
           ELSE /\ ota' = received
                /\ hs' = [hs EXCEPT ![c] = [h EXCEPT !.left = left]]
                /\ image' = [image EXCEPT ![c] = img]
                /\ UNCHANGED <<pcb, inflight>>

\* A complete POST header, with the first n bytes of its body behind it.
http_post_request(c, r) ==
    /\ Parsing(c) /\ r.method = "POST"
    /\ LET upload == r.uri = "/ota/upload"
           accepted == upload /\ ~Busy(ota) /\ GoodSize(r.len)
           begun == IF upload THEN httpd_post_begin(ota, c, r.len) ELSE ota
           h == [hs[c] EXCEPT !.parts = 0, !.left = IF accepted THEN r.len ELSE 0]
       IN \/ /\ accepted
             /\ \E n \in 1 .. MaxSegment : http_post_rxpbuf(c, begun, h, r.image, n)
          \/ /\ accepted
             /\ ota' = begun
             /\ hs' = [hs EXCEPT ![c] = h]
             /\ image' = [image EXCEPT ![c] = r.image]
             /\ UNCHANGED <<pcb, inflight>>
          \/ /\ ~accepted
             /\ ota' = begun
             /\ http_send(c, http_find_file(h, IF upload THEN "/rest/ota_state" ELSE "/404"), 0)
    /\ UNCHANGED <<applyVars, misread>>

http_recv_post_data(c) ==
    /\ Idle /\ pcb[c] = "open" /\ hs[c].left > 0
    /\ \E n \in 1 .. MaxSegment :
          http_post_rxpbuf(c, ota, [hs[c] EXCEPT !.retries = 0], image[c], n)
    /\ UNCHANGED <<applyVars, misread>>

\* The client closes: a POST that is not over is ended.
http_recv_fin(c) ==
    /\ Idle /\ pcb[c] = "open"
    /\ http_close_conn(c)
    /\ \E ok \in Outcomes(hs[c].left > 0 /\ ota.fill > 0) :
          ota' = IF hs[c].left > 0 THEN httpd_post_finished(ota, c, ok) ELSE ota
    /\ UNCHANGED <<applyVars, misread>>

\* The connection broke: the state is freed, nobody else is told.
http_err(c) ==
    /\ Idle /\ pcb[c] = "open"
    /\ pcb' = [pcb EXCEPT ![c] = "free"]
    /\ http_state_free(c)
    /\ UNCHANGED <<ota, applyVars, misread>>

\* The client acknowledges what it received.
http_sent(c) ==
    /\ Idle /\ pcb[c] = "open" /\ inflight[c] > 0
    /\ http_send(c, [hs[c] EXCEPT !.retries = 0], inflight[c])
    /\ UNCHANGED <<ota, applyVars, misread>>

\* mutant: a connection whose request never ends is not given up
PollOnlySending(c) ==
    /\ Idle
    /\ \/ /\ pcb[c] = "closing"
          /\ http_close_conn(c)
       \/ /\ pcb[c] = "open" /\ hs[c].handle
          /\ IF hs[c].retries + 1 = MaxRetries
             THEN http_close_conn(c)
             ELSE http_send(c, [hs[c] EXCEPT !.retries = @ + 1], 0)
    /\ UNCHANGED <<ota, applyVars, misread>>

http_poll(c) ==
    /\ Idle
    /\ \/ /\ pcb[c] = "closing"
          /\ http_close_conn(c)
          /\ ota' = ota
       \/ /\ pcb[c] = "open" /\ hs[c].retries + 1 = MaxRetries
          /\ http_close_conn(c)
          /\ \E ok \in Outcomes(hs[c].left > 0 /\ ota.fill > 0) :
                ota' = IF hs[c].left > 0 THEN httpd_post_finished(ota, c, ok) ELSE ota
       \/ /\ pcb[c] = "open" /\ hs[c].retries + 1 < MaxRetries
          /\ IF ~hs[c].handle
             THEN /\ hs' = [hs EXCEPT ![c].retries = @ + 1]
                  /\ UNCHANGED <<pcb, image, inflight>>
             ELSE http_send(c, [hs[c] EXCEPT !.retries = @ + 1], 0)
          /\ ota' = ota
    /\ UNCHANGED <<applyVars, misread>>

-----------------------------------------------------------------------------
(* The apply task, and the end of everything that is only in RAM. *)

\* The task reads the length before it sleeps, to let the answer go out.
ota_apply_task ==
    /\ apply = "started"
    /\ apply' = "delay" /\ length' = ota.received
    /\ UNCHANGED <<httpVars, ota, pos, running, misread>>

\* The other core could not be parked: the update is given up.
ota_apply_refused ==
    /\ apply = "delay"
    /\ apply' = "none" /\ ota' = [ota EXCEPT !.st = "ERROR"]
    /\ UNCHANGED <<httpVars, pos, length, running, misread>>

ota_apply_start ==
    /\ apply = "delay"
    /\ apply' = "copy" /\ pos' = 0
    /\ UNCHANGED <<httpVars, ota, length, running, misread>>

ota_apply_job ==
    /\ apply = "copy" /\ pos \in SectorsOf(length)
    /\ running' = [running EXCEPT ![pos] = ota.stage[pos]]
    /\ pos' = pos + 1
    /\ UNCHANGED <<httpVars, ota, apply, length, misread>>

\* The flash keeps its contents, everything else starts over.
Restart ==
    /\ pcb' = [c \in Conns |-> "free"]
    /\ hs' = [c \in Conns |-> http_state_init]
    /\ image' = [c \in Conns |-> NoImage]
    /\ inflight' = [c \in Conns |-> 0]
    /\ ota' = [ota_init EXCEPT !.stage = ota.stage]
    /\ pos' = 0 /\ length' = 0
    /\ UNCHANGED <<running, misread>>

ota_apply_reset == apply = "copy" /\ pos \notin SectorsOf(length) /\ Restart /\ apply' = "none"

\* The power fails, or /rest/system_control asks for a reboot.  When that happens
\* while an image is copied, what starts next is not this program.
software_reboot ==
    /\ apply # "torn"
    /\ Restart /\ apply' = IF apply = "copy" THEN "torn" ELSE "none"

-----------------------------------------------------------------------------
Connection(c) ==
    \/ http_accept(c) \/ http_parse_incomplete(c)
    \/ \E r \in Requests : http_parse_get(c, r) \/ http_parse_bad(c, r) \/ http_post_request(c, r)
    \/ http_recv_post_data(c) \/ http_recv_fin(c) \/ http_err(c) \/ http_sent(c) \/ http_poll(c)
ApplyTask ==
    ota_apply_task \/ ota_apply_refused \/ ota_apply_start \/ ota_apply_job \/ ota_apply_reset

Next == (\E c \in Conns : Connection(c)) \/ ApplyTask \/ software_reboot

Spec == Init /\ [][Next]_vars

\* The poll timer of the stack fires, and the apply task is scheduled; nothing
\* is assumed of the clients.
FairSpec == Spec /\ WF_vars(ApplyTask) /\ \A c \in Conns : WF_vars(http_poll(c))

-----------------------------------------------------------------------------
(* Properties. *)

Connected == [left : 0 .. OTA_MAX_IMAGE_BYTES, handle : BOOLEAN,
              unsent : Nat, retries : 0 .. MaxRetries - 1, parts : 0 .. MaxParts]

\* Types; a staged sector number never leaves the staging half of the flash
\* (ota.c:227), and a reply is only under way on a connection that has one.
TypeOK ==
    /\ pcb \in [Conns -> {"free", "open", "closing"}]
    /\ hs \in [Conns -> Connected]
    /\ image \in [Conns -> Images \union {NoImage}]
    /\ inflight \in [Conns -> Nat]
    /\ ota \in [st : ota_state_t, conn : Conns \union {NoConn}, expected : 0 .. OTA_MAX_IMAGE_BYTES,
                 received : 0 .. OTA_MAX_IMAGE_BYTES, buf : Content, fill : 0 .. SectorBytes - 1,
                 index : 0 .. Sectors, crc : Images \union {NoImage}, stage : [Sector -> Content]]
    /\ apply \in {"none", "started", "delay", "copy", "torn"}
    /\ pos \in 0 .. Sectors /\ length \in 0 .. OTA_MAX_IMAGE_BYTES
    /\ running \in [Sector -> Content]
    /\ misread \in BOOLEAN

\* The HTTP server and the updater agree on every upload: a connection with body
\* bytes to come is the one the updater receives from, and both count the same
\* number of missing bytes (http_rest.c:1758, ota.c:243).
UploadAccounting ==
    \A c \in Conns : hs[c].left > 0 =>
        pcb[c] = "open" /\ Owns(ota, c) /\ ota.expected - ota.received = hs[c].left

\* Unless the power fails while an image is copied, the firmware that runs is one
\* whole image: the first one, or one that was uploaded completely over a single
\* connection, verified and found plausible (ota.c:100-170).
RunningIsWhole ==
    Idle =>
        \/ \A s \in Sector : running[s] = {OldImage}
        \/ \E x \in Plausible : \A s \in SectorsOf(Length[x]) : running[s] = {x}

\* A handler is given the names and values the client encoded, also when a value
\* contains an escaped "&" or "=" (http_rest.c:2885), if the query fits.
ParamsAsSent == ~misread

\* Every connection ends, whatever its client does or stops doing
\* (http_rest.c:2482): no connection slot is lost.
ConnectionsEnd == \A c \in Conns : pcb[c] = "open" ~> pcb[c] = "free"

\* "Make sure the post code knows that the connection is closed"
\* (http_rest.c:607): an upload that was begun ends, one way or another.
UploadEnds == ota.st = "RECEIVING" ~> ota.st # "RECEIVING"
=============================================================================

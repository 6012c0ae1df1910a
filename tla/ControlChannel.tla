--------------------------- MODULE ControlChannel ---------------------------
(* The control packets between the command line tools and the Broker (host-runtime control.rs):
   the incremental decoder of one connection, the request and result bodies, and the
   deterministic CBOR rules.

   Lengths are in units: LenUnits for the four-byte length, the operation readable once OpUnits
   have arrived, the decoder's 64-byte window WindowUnits.  A CBOR body is the sequence of its
   [key, value] pairs, a value being "good" or the way it is wrong; `control` holds one job. *)
EXTENDS Naturals, Integers, Sequences, FiniteSets

CONSTANTS LenUnits, OpUnits, WindowUnits,     \* 4 bytes, the operation, 64 bytes
          SmallCap, OpenCap, ExchangeCap,     \* NON_EXCHANGE, OPEN_SESSION, EXCHANGE_REQUEST caps
          CapabilityIds, CapabilityLimit,     \* capability names in byte order; 0 is not a name
          CborDepth, CborTokens               \* 64 levels; tokens explored

VARIABLES control
controlVars == <<control>>

Operations == 0..4
UnknownOperation == 5
CapOf(op) == CASE op = 1 -> OpenCap [] op = 2 -> ExchangeCap [] OTHER -> SmallCap

Least(S) == CHOOSE n \in S : \A m \in S : n <= m
Ascending(S) == [i \in 1..Cardinality(S) |->
                   CHOOSE n \in S : Cardinality({m \in S : m < n}) = i - 1]

-----------------------------------------------------------------------------
(* The incremental decoder.  A packet is what the peer sends: the length it declares, the units
   it sends before it closes, its operation, whether the map header is readable, and its body:
   it breaks the deterministic rules ("irregular"), or what decode_request says of it. *)

Packets == [declared : 0..(ExchangeCap + 1), sent : 0..(ExchangeCap + LenUnits + 2),
            op : Operations \cup {UnknownOperation}, header : BOOLEAN,
            body : {"ok", "Malformed", "irregular"}]

Open(p) == [job |-> "stream", packet |-> p, arrived |-> 0, pending |-> 0, peak |-> 0,
            outcome |-> "none"]

\* What push finds in the first 64 bytes: "" when it may go on, else the reason of the refusal.
PrefixFault(p, prospective) ==
    LET prefix == Least({prospective, WindowUnits})
        readable == p.header /\ prefix >= OpUnits
    IN CASE prefix < LenUnits -> ""
         [] p.declared = 0 -> "Malformed"
         [] p.declared > ExchangeCap -> "Oversize"
         [] prospective > p.declared + LenUnits -> "Malformed"
         [] readable /\ p.op \notin Operations -> "Malformed"
         [] readable /\ p.declared > CapOf(p.op) -> "Oversize"
         [] ~readable /\ prefix = WindowUnits -> "Malformed"
         [] OTHER -> ""

\* decode_request_packet on a complete packet: the deterministic rules and the header first.
DecodePacket(p) ==
    CASE p.body = "irregular" \/ ~p.header \/ p.op \notin Operations -> "Malformed"
      [] p.declared > CapOf(p.op) -> "Oversize"
      [] OTHER -> p.body

Push(c, n) ==
    LET prospective == c.pending + n
        fault == PrefixFault(c.packet, prospective)
        expected == c.packet.declared + LenUnits
        known == prospective >= LenUnits
    IN IF fault # ""
       THEN [c EXCEPT !.arrived = @ + n, !.pending = 0, !.outcome = fault]
       ELSE [c EXCEPT !.arrived = @ + n, !.pending = prospective,
                      !.peak = IF prospective > @ THEN prospective ELSE @,
                      !.outcome = IF known /\ prospective = expected
                                  THEN DecodePacket(c.packet) ELSE @]

\* serve_connection reads until the decoder has an answer, the peer closes or the read times out.
Deliver == /\ control.job = "stream" /\ control.outcome = "none"
           /\ \E n \in 1..(control.packet.sent - control.arrived) : control' = Push(control, n)

Eof == /\ control.job = "stream" /\ control.outcome = "none"
       /\ control.arrived = control.packet.sent
       /\ control' = [control EXCEPT !.pending = 0, !.outcome = IF control.pending = 0
                                                               THEN "closed" ELSE "Malformed"]

ReadTimeout == /\ control.job = "stream" /\ control.outcome = "none"
               /\ control' = [control EXCEPT !.pending = 0, !.outcome = IF control.pending = 0
                                                                       THEN "closed" ELSE "Timeout"]

-----------------------------------------------------------------------------
(* Bodies.  Walk reads the pairs in the order the decoder expects its keys; the first pair that
   is missing, out of place or wrong decides.  Of the reasons a value can be refused for, two
   stand for all: a wrong type or form, and a payload of a wrong size. *)

Values == {"good", "Malformed", "Oversize"}
Item(keys, wrong, how) == [i \in 1..Len(keys) |->
                             [key |-> keys[i], value |-> IF i = wrong THEN how ELSE "good"]]

Walk(item, keys) ==
    LET off == {i \in 1..Len(keys) : \/ i > Len(item)
                                     \/ item[i].key # keys[i]
                                     \/ item[i].value # "good"}
        first == Least(off)
    IN CASE off = {} -> IF Len(item) = Len(keys) THEN "ok" ELSE "Malformed"
         [] first > Len(item) \/ item[first].key # keys[first] -> "Malformed"
         [] OTHER -> item[first].value

\* require_map before the fields: a wrong count is refused whatever the fields say.
Counted(item, keys) == IF Len(item) # Len(keys) THEN "Malformed" ELSE Walk(item, keys)

PrepareKeys == <<0, 1, 2, 3, 4>>
ExchangeKeys == <<0, 1, 2, 3, 4, 5, 6>>
CloseSessionKeys == <<0, 1, 2, 3, 4>>
CloseLeaseKeys == <<0, 1>>
OpenKeys(session) == IF session THEN <<0, 1, 2>> ELSE <<0, 2, 3, 4>>

HasSession(item, at) == Len(item) >= at /\ item[at].key = at - 1

DecodePrepare(item) == Counted(item, PrepareKeys)
DecodeExchange(item) == Counted(item, ExchangeKeys)
DecodeCloseSession(item) == Counted(item, CloseSessionKeys)
DecodeCloseLease(item) == Counted(item, CloseLeaseKeys)
\* The trailing-bytes test after the fields forgotten: whatever follows the last field is let in.
DecodeOpenTrailing(item) ==
    IF Len(item) \notin {3, 4} THEN "Malformed"
    ELSE Walk(SubSeq(item, 1, Least({Len(item), Len(OpenKeys(HasSession(item, 2)))})),
              OpenKeys(HasSession(item, 2)))
DecodeOpen(item) == IF Len(item) \notin {3, 4} THEN "Malformed"
                    ELSE Walk(item, OpenKeys(HasSession(item, 2)))

DecodeRequest(op, item) == CASE op = 0 -> DecodePrepare(item)
                             [] op = 1 -> DecodeOpen(item)
                             [] op = 2 -> DecodeExchange(item)
                             [] op = 3 -> DecodeCloseSession(item)
                             [] op = 4 -> DecodeCloseLease(item)

\* A result's body: key 0 is the kind (0 ready, 1 opened, 2 exchanged, 3 closed) or, in a
\* failure, the error kind; `kind` is what stands there.
SuccessKeys(kind, session) == CASE kind = 0 -> <<0, 1, 3, 4, 5, 6>>
                                [] kind = 1 -> <<0, 1, 2, 3, 4, 5, 6>>
                                [] kind = 2 -> <<0, 1, 2, 3, 4, 5, 6, 7>>
                                [] kind = 3 -> IF session THEN <<0, 1, 2, 7>> ELSE <<0, 1, 7>>
FailureKeys == <<0, 1, 2, 3, 4, 5>>

DecodeSuccess(kind, item) ==
    CASE kind \in 0..2 -> Counted(item, SuccessKeys(kind, FALSE))
      [] kind = 3 -> IF Len(item) \notin {3, 4} THEN "Malformed"
                     ELSE Walk(item, SuccessKeys(3, HasSession(item, 3)))
      [] OTHER -> "Malformed"

DecodeFailure(item) == Counted(item, FailureKeys)

\* The encoders write the fields in key order; what an open session carries besides its id is
\* left out, so the round trip in encode_request_packet is what notices.
EncodePrepare(b) == PrepareKeys
EncodeOpen(b) == OpenKeys(b.session)
EncodeExchange(b) == ExchangeKeys
EncodeCloseSession(b) == CloseSessionKeys
EncodeCloseLease(b) == CloseLeaseKeys
EncodeSuccess(b) == SuccessKeys(b.op, b.session)

RequestBodies == [op : Operations, session : BOOLEAN, request : BOOLEAN, wrong : 0..7, how : Values]

FieldsOf(b) == CASE b.op = 0 -> EncodePrepare(b) [] b.op = 1 -> EncodeOpen(b)
                 [] b.op = 2 -> EncodeExchange(b) [] b.op = 3 -> EncodeCloseSession(b)
                 [] b.op = 4 -> EncodeCloseLease(b)

\* decode_request of what was written: the fields as they were, and an opening request exactly
\* when there is no session id.
ReadBack(b) == [b EXCEPT !.request = b.op = 1 /\ ~b.session, !.session = b.op = 1 /\ b.session]

EncodeRequestPacket(b) ==
    LET item == Item(FieldsOf(b), b.wrong, b.how)
        verdict == DecodeRequest(b.op, item)
    IN CASE b.op = 1 /\ ~b.session /\ ~b.request -> "Malformed"
         [] verdict # "ok" -> verdict
         [] ReadBack(b) # b -> "InternalError"
         [] OTHER -> "ok"

\* validate_success before the encoding and the comparison after it.
EncodeSuccessPacket(b) ==
    IF b.how # "good" THEN b.how ELSE DecodeSuccess(b.op, Item(EncodeSuccess(b), 0, "good"))

\* The required capabilities: one to the limit, names only, strictly ascending.
DecodeCapabilities(seq) == /\ Len(seq) \in 1..CapabilityLimit
                           /\ \A i \in 1..Len(seq) : seq[i] # 0
                           /\ \A i \in 2..Len(seq) : seq[i - 1] < seq[i]

KeySequences == {Ascending(S) : S \in SUBSET (0..7)}

DecodeAnyRequest ==
    /\ control.job = "idle"
    /\ \E op \in Operations, keys \in KeySequences, wrong \in 0..8, how \in Values \ {"good"} :
         LET item == Item(keys, wrong, how) IN
         control' = [job |-> "request", op |-> op, item |-> item,
                     outcome |-> DecodeRequest(op, item)]

DecodeAnyResult ==
    /\ control.job = "idle"
    /\ \E kind \in 0..4, ok \in BOOLEAN, keys \in KeySequences, wrong \in 0..8,
          how \in Values \ {"good"} :
         LET item == Item(keys, wrong, how) IN
         control' = [job |-> "result", op |-> kind, ok |-> ok, item |-> item,
                     outcome |-> IF ok THEN DecodeSuccess(kind, item) ELSE DecodeFailure(item)]

EncodeAnyRequest ==
    /\ control.job = "idle"
    /\ \E b \in RequestBodies :
         control' = [job |-> "encode", body |-> b, outcome |-> EncodeRequestPacket(b)]

EncodeAnySuccess ==
    /\ control.job = "idle"
    /\ \E b \in [op : 0..3, session : BOOLEAN, how : Values] :
         control' = [job |-> "reply", body |-> b, outcome |-> EncodeSuccessPacket(b)]

ReadCapabilities ==
    /\ control.job = "idle"
    /\ \E n \in 0..(CapabilityLimit + 1) : \E seq \in [1..n -> CapabilityIds \cup {0}] :
         control' = [job |-> "capabilities", seq |-> seq, outcome |-> DecodeCapabilities(seq)]

-----------------------------------------------------------------------------
(* validate_deterministic_cbor, one token at a time.  A frame is an array or a map still being
   read: the items left, and for a map its last key.  `rest' says whether bytes follow the
   outermost item; `maps` keeps every map's keys. *)

Frame(kind, n, id) == [kind |-> kind, left |-> n, prev |-> -1, id |-> id]
CborStart(rest) ==
    [job |-> "cbor", frames |-> <<Frame("array", 1, 0)>>, tokens |-> 0, maps |-> <<>>,
     rest |-> rest, wide |-> FALSE, deep |-> FALSE, outcome |-> "none"]

\* One item of the innermost frame is done; frames that are complete close with it.
CloseFrames(frames) ==
    LET spent(n) == \A i \in n..Len(frames) : frames[i].left = (IF i = Len(frames) THEN 0 ELSE 1)
        keep == {n \in 0..Len(frames) : ~(n < Len(frames) /\ ~spent(n + 1))}
        n == Least(keep)
    IN IF n = Len(frames) \/ n = 0 THEN SubSeq(frames, 1, n)
       ELSE [SubSeq(frames, 1, n) EXCEPT ![n].left = @ - 1]

Innermost == control.frames[Len(control.frames)]
OneItem(frames) == CloseFrames([frames EXCEPT ![Len(frames)].left = @ - 1])
Reject(c) == [c EXCEPT !.outcome = "Malformed"]

\* validate_deterministic_cbor: nothing may follow the outermost item.
Finish(c) == IF c.frames # <<>> THEN c
             ELSE IF c.rest THEN Reject(c) ELSE [c EXCEPT !.outcome = "ok"]

\* read_argument: the shortest form only.
ShortestForm(wide) == ~wide

\* A map's key: an unsigned integer (-1 stands for anything else) above the one before.
KeyInOrder(frame, key) == frame.prev < key

ReadKey(c, key, wide) ==
    LET n == Len(c.frames)
        seen == [c EXCEPT !.maps[Innermost.id] = Append(@, key), !.wide = @ \/ wide]
    IN IF ShortestForm(wide) /\ KeyInOrder(Innermost, key)
       THEN [seen EXCEPT !.frames[n].prev = key] ELSE Reject(seen)

\* validate_item: a scalar or string, or the head of an array or map with n entries.
ReadItem(c, kind, n, wide) ==
    LET d == [c EXCEPT !.tokens = @ + 1, !.wide = @ \/ wide,
                       !.deep = @ \/ Len(c.frames) > CborDepth]
        id == IF kind = "map" THEN Len(c.maps) + 1 ELSE 0
        headed == IF kind = "map" THEN [d EXCEPT !.maps = Append(@, <<>>)] ELSE d
    IN CASE Len(c.frames) > CborDepth -> Reject(d)
         [] ~ShortestForm(wide) -> Reject(d)
         [] kind = "refused" -> Reject(d)
         [] kind = "scalar" -> Finish([d EXCEPT !.frames = OneItem(@)])
         [] n = 0 -> Finish([headed EXCEPT !.frames = OneItem(@)])
         [] OTHER -> [headed EXCEPT !.frames = Append(@, Frame(kind, n, id))]

NextToken ==
    /\ control.job = "cbor" /\ control.outcome = "none"
    /\ IF control.tokens = CborTokens
       THEN control' = Reject(control)                                     \* the bytes end early
       ELSE \E kind \in {"scalar", "array", "map", "refused"}, n \in 0..2, wide \in BOOLEAN,
               key \in -1..2, wideKey \in BOOLEAN :
              /\ kind \in {"scalar", "refused"} => n = 0
              /\ Innermost.kind = "array" => key = 0 /\ ~wideKey
              /\ LET c == IF Innermost.kind = "map" THEN ReadKey(control, key, wideKey) ELSE control
                 IN control' = IF c.outcome # "none" THEN c ELSE ReadItem(c, kind, n, wide)

-----------------------------------------------------------------------------
ControlInit == control \in {Open(p) : p \in Packets} \cup {CborStart(rest) : rest \in BOOLEAN}
                          \cup {[job |-> "idle"]}
ControlNext == \/ Deliver \/ Eof \/ ReadTimeout \/ NextToken
               \/ DecodeAnyRequest \/ DecodeAnyResult \/ EncodeAnyRequest \/ EncodeAnySuccess
               \/ ReadCapabilities

-----------------------------------------------------------------------------
\* How a packet is cut into reads decides nothing: the decoder's verdict is the one it gives when
\* the packet comes in one read, a packet becomes a request exactly if decode_request_packet
\* accepts the whole of it, one that is cut short never does, and never more than the
\* operation's cap is buffered.
ChunksInvisible ==
    control.job = "stream" =>
      LET p == control.packet
          whole == p.declared > 0 /\ p.declared <= ExchangeCap /\ p.sent >= p.declared + LenUnits
      IN /\ control.outcome = "ok" => whole /\ DecodePacket(p) = "ok"
         /\ control.outcome \notin {"none", "closed", "Timeout"}
              /\ whole /\ p.sent = p.declared + LenUnits
              => /\ control.outcome = Push(Open(p), p.sent).outcome
                 /\ control.outcome = "ok" <=> DecodePacket(p) = "ok"
         /\ control.peak <= Least({WindowUnits - 1, p.declared + LenUnits})
              \/ (p.header /\ p.op \in Operations /\ control.peak <= CapOf(p.op) + LenUnits)

\* Each request has one encoding: a body is accepted exactly when it is one the encoder writes,
\* with every field good.
BodiesCanonical ==
    /\ control.job = "request" =>
         (control.outcome = "ok" <=>
            \E s \in BOOLEAN : control.item =
               Item(FieldsOf([op |-> control.op, session |-> s]), 0, "good"))
    /\ control.job = "result" =>
         (control.outcome = "ok" <=>
            IF control.ok
            THEN control.op \in 0..3 /\ \E s \in BOOLEAN :
                   control.item = Item(SuccessKeys(control.op, s), 0, "good")
            ELSE control.item = Item(FailureKeys, 0, "good"))
    /\ control.job = "encode" /\ control.outcome = "ok" => ReadBack(control.body) = control.body
    /\ control.job = "reply" => (control.outcome = "ok" <=> control.body.how = "good")
    /\ control.job = "capabilities" =>
         (control.outcome <=>
            \E S \in SUBSET CapabilityIds : /\ S # {} /\ Cardinality(S) <= CapabilityLimit
                                            /\ control.seq = Ascending(S))

\* What the deterministic rules let through has every map in strictly ascending key order, every
\* number, keys too, in its shortest form, no nesting past the limit and nothing behind it.
CborDeterministic ==
    control.job = "cbor" /\ control.outcome = "ok" =>
      /\ ~control.wide /\ ~control.deep /\ ~control.rest
      /\ \A m \in 1..Len(control.maps) : \A i \in 2..Len(control.maps[m]) :
           control.maps[m][i - 1] < control.maps[m][i]

\* The control packets are read exactly: ChunksInvisible, BodiesCanonical and CborDeterministic.
ControlExact == ChunksInvisible /\ BodiesCanonical /\ CborDeterministic
=============================================================================

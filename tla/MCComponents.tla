---------------------------- MODULE MCComponents ----------------------------
(***************************************************************************)
(* The sequential components that share no state: each behaviour is one of *)
(* one component, the others rest in an initial state.                     *)
(***************************************************************************)
EXTENDS FieldSection, Control, Containers, RateLimit, Wire

VARIABLE part   \* the component of this behaviour
vars == <<part, section_vars, control_vars, container_vars, rate_vars, wire_vars>>

(* Fields of a section: every rule of HttpMsg and a field that breaks it.  *)
F(name, value) == [name |-> name, value |-> value, digits |-> <<>>, dict |-> <<>>]
Digits(name, d) == [F(name, "digits") EXCEPT !.digits = d]
Pri(value, d) == [F("priority", value) EXCEPT !.dict = d]
Urgency(n) == [key |-> "u", type |-> "integer", num |-> n]
CommonFields ==
  {F(":path", "/"), Digits(":status", <<2, 0, 0>>), F(":unknown", "x"),
   F("host", "a"), F("", "x"), F("connection", "x"), Digits("content-length", <<0>>),
   Digits("content-length", <<2, 9, 9>>), Digits("content-length", <<3, 0, 0>>)}
RequestFields ==
  {F(":method", "CONNECT"), F(":method", "OPTIONS"), F(":method", "GET"),
   F(":path", "*"), F(":scheme", "http"), F(":scheme", "other"),
   F(":authority", "a"), F(":authority", ""), F(":protocol", "p"), F("host", "bad"),
   Pri("ok", <<Urgency(8)>>), Pri("bad", <<>>),
   Pri("ok", <<[key |-> "i", type |-> "boolean", num |-> 1], Urgency(2)>>)}
ResponseFields ==
  {Digits(":status", <<2, 0, 4>>), Digits(":status", <<1, 0, 0>>), Digits(":status", <<0, 9, 9>>)}
MCFields ==
  [request \in BOOLEAN |-> CommonFields \cup IF request THEN RequestFields ELSE ResponseFields]
Section(request, trailers, protocol, method) ==
  [request |-> request, trailers |-> trailers, connectProtocol |-> protocol, method |-> method]
MCSections ==
  {Section(TRUE, FALSE, FALSE, ""), Section(TRUE, FALSE, TRUE, ""), Section(TRUE, TRUE, FALSE, ""),
   Section(FALSE, FALSE, FALSE, "CONNECT"), Section(FALSE, FALSE, FALSE, "HEAD"),
   Section(FALSE, FALSE, FALSE, "GET")}

(* What a peer may send on its unidirectional streams: well-formed frames  *)
(* of every type, and each of them cut short, too long or out of order.    *)
Half == [k |-> "half", type |-> "", n |-> 0]
Num(type, n) == [k |-> "int", type |-> type, n |-> n]
Byte(n) == [k |-> "byte", type |-> "", n |-> n]
Fr(type, payload) == <<Num(type, 0), Num("", Len(payload))>> \o payload
Setting(id, n) == <<Num(id, 0), Num("", n)>>
Wide(u) == <<Half, u>>
Stream(frames) == <<Num("CONTROL", 0)>> \o FlattenSeq(frames)
OriginData == <<Byte(0), Byte(1), Byte(7), Byte(0), Byte(2), Byte(7), Byte(7)>>
SettingsFrames == {
  Fr("SETTINGS", <<>>), Fr("SETTINGS", Setting("H3_DATAGRAM", 2)),
  Fr("SETTINGS", Setting("ENABLE_PUSH", 0)), Fr("SETTINGS", <<Num("H3_DATAGRAM", 0)>>),
  Fr("SETTINGS", Setting("H3_DATAGRAM", 1) \o <<Half>>),
  Fr("SETTINGS", Setting("MAX_TABLE_CAPACITY", 100) \o Setting("BLOCKED_STREAMS", 200)
                 \o Setting("MAX_TABLE_CAPACITY", 100)),
  Fr("SETTINGS", Setting("MAX_TABLE_CAPACITY", 0) \o Setting("MAX_TABLE_CAPACITY", 100)
                 \o Setting("MAX_FIELD_SECTION_SIZE", 7)),
  Fr("SETTINGS", <<Half, Num("BLOCKED_STREAMS", 0)>> \o Wide(Num("", 200))
                 \o Setting("ENABLE_CONNECT_PROTOCOL", 1) \o Setting("ENABLE_CONNECT_PROTOCOL", 0))}
Plain == Fr("SETTINGS", <<>>)
Frames == {
  Plain, Fr("DATA", <<>>), Fr("UNKNOWN", <<Byte(0), Byte(0)>>),
  Fr("GOAWAY", Wide(Num("", 8))), Fr("GOAWAY", <<Num("", 4)>>), Fr("GOAWAY", <<Num("", 5)>>),
  Fr("GOAWAY", <<Half>>),
  Fr("MAX_PUSH_ID", <<Num("", 1)>>), Fr("MAX_PUSH_ID", <<Num("", 0)>>), Fr("MAX_PUSH_ID", <<>>),
  Fr("PRIORITY_UPDATE", <<Num("", 4)>>), Fr("PRIORITY_UPDATE", <<Num("", 0), Byte(1), Byte(2)>>),
  Fr("PRIORITY_UPDATE", <<Num("", 0), Byte(1), Byte(2), Byte(3)>>),
  Fr("PRIORITY_UPDATE", <<Num("", 0), Byte(9)>>), Fr("PRIORITY_UPDATE", <<Num("", 12)>>),
  Fr("PRIORITY_UPDATE_PUSH_ID", <<>>),
  Fr("ORIGIN", <<>>), Fr("ORIGIN", OriginData), Fr("ORIGIN", <<Byte(0), Byte(2), Byte(7)>>),
  Fr("ORIGIN", <<Byte(0)>>)}
LastFrame == Fr("GOAWAY", <<Num("", 4)>>)
ControlStreams ==
  {Stream(<<s, f>>) : s \in SettingsFrames, f \in {LastFrame, Plain}}
  \cup {Stream(<<Plain, f, g>>) : f, g \in Frames} \cup {Stream(<<f, Plain>>) : f \in Frames}
OtherStreams ==
  {<<Num("QPACK_ENCODER", 0), Byte(0)>>, Wide(Num("OTHER", 0)) \o <<Byte(0)>>,
   <<Num("CONTROL", 0), Byte(0)>>, <<Num("PUSH", 0)>>}
MCPeers ==
  {<<c>> : c \in ControlStreams}
  \cup {<<Stream(<<s, LastFrame>>), o>> : s \in SettingsFrames, o \in OtherStreams}

(* What this library may write there. *)
Local(server, settings, frames) == [server |-> server, settings |-> settings, frames |-> frames]
SettingsOf(f, c, b, e, d) ==
  [field |-> f, capacity |-> c, blocked |-> b, connect |-> e, datagram |-> d]
GoawayFr(id) == [type |-> "GOAWAY", id |-> id]
PriorityFr(id, data, urgency) ==
  [type |-> "PRIORITY_UPDATE", id |-> id, data |-> data, urgency |-> urgency]
OriginFr(data, lens) == [type |-> "ORIGIN", data |-> data, lens |-> lens]
MCLocals ==
  {Local(TRUE, SettingsOf(29, 4096, 200, 1, 1),
         <<OriginFr(OriginData, <<1, 2>>), GoawayFr(296), GoawayFr(8)>>),
   Local(TRUE, SettingsOf(100, 0, 0, 0, 0), <<GoawayFr(80)>>),
   Local(FALSE, SettingsOf(29, 0, 1, 1, 0),
         <<PriorityFr(0, <<Byte(1), Byte(2)>>, 2), GoawayFr(0), PriorityFr(4, <<>>, 3)>>)}

(* Hash functions on the keys 1..7: spread, clustered, around the end.     *)
MCHashes ==
  {<<0, 1, 2, 3, 32, 63, 62>>, <<0, 0, 0, 16, 16, 17, 62>>, <<63, 62, 60, 61, 0, 33, 8>>}

(* Instructions of every kind with numbers around each prefix' limit and   *)
(* texts with short and long Huffman codes, each at the length limit too.  *)
A(n) == [i \in 1..n |-> 97]
Texts == {<<>>, <<97>>, A(3), <<0, 97, 97, 97, 97, 97>>, <<10, 10, 13, 22, 255, 1, 2, 3>>}
Names == {<<97>>, A(13), <<0, 10, 255, 92, 1, 2, 3>>}
Numbers ==
  {0, 6, 7, 14, 15, 30, 31, 62, 63, 126, 127, 128, 254, 255, 382, 383, 16446, 16447, IntMax}
Line(op, dyn, never, idx, name, value) ==
  [op |-> op, dyn |-> dyn, never |-> never, idx |-> idx, name |-> name, value |-> value]
Indexed(op, dyn, idx) == Line(op, dyn, FALSE, idx, <<>>, <<>>)
Lines ==
  {Indexed("Indexed", TRUE, n) : n \in Numbers}
  \cup {Indexed("Indexed", FALSE, n) : n \in {0, 62, 63, 98}}
  \cup {Indexed("IndexedPB", TRUE, n) : n \in {0, 15, IntMax}}
  \cup {Line("Name", d, ~d, n, <<>>, v) : d \in BOOLEAN, n \in {0, 15, 98}, v \in Texts}
  \cup {Line("NamePB", TRUE, TRUE, n, <<>>, v) : n \in {7, 8}, v \in Texts}
  \cup {Line("Literal", FALSE, b, 0, s, v) : b \in BOOLEAN, s \in Names, v \in Texts}
EncoderOps ==
  {Indexed("SetCap", FALSE, n) : n \in Numbers}
  \cup {Indexed("Duplicate", TRUE, n) : n \in {0, 30, IntMax}}
  \cup {Line("InsertName", d, FALSE, n, <<>>, v) : d \in BOOLEAN, n \in {0, 63, 98}, v \in Texts}
  \cup {Line("Insert", FALSE, FALSE, 0, s, v) : s \in Names, v \in Texts}
DecoderOps == {Indexed(op, FALSE, n) : op \in {"Ack", "Cancel", "Increment"}, n \in Numbers}
SectionPrefix(ricnt, sign, base) == [op |-> "Prefix", ricnt |-> ricnt, sign |-> sign, base |-> base]
SectionPrefixes ==
  {SectionPrefix(n, s, b) : n \in {0, 254, 255, 400}, s \in BOOLEAN, b \in {0, 126, 127}}
Uints ==
  {Zeros(8), Zeros(7) \o <<63>>, Zeros(7) \o <<64>>, Zeros(6) \o <<63, 255>>,
   Zeros(6) \o <<64, 0>>, Zeros(4) \o <<63, 255, 0, 0>>, Zeros(4) \o <<64, 0, 0, 0>>,
   <<0, 0, 0, 1, 2, 3, 4, 5>>, <<63, 255, 255, 255, 255, 255, 255, 255>>}

(* What no sender of this library writes: numbers that are too big, cut    *)
(* short or longer than they need be, bad Huffman padding, long strings.   *)
TooBig == {<<255, 255, 255, 255, 63>>, <<255, 193, 255, 63, 0>>, <<255, 128, 128, 128, 0>>,
           <<255, 128>>, <<255>>}
TooLong == {<<192, 132, 255, 255, 255, 255>>, <<192, 129, 254>>, <<192, 129, 31>>,
            <<192, 130, 7, 255>>, <<192, 127, 1>>, <<192, 200>>, <<192, 5, 1, 2>>}
Message(k, list, junk) == [kind |-> k, list |-> list, junk |-> junk]
Valid(k, lists) == {Message(k, l, <<>>) : l \in lists}
MCMessages ==
  Valid("request", {<<p, Indexed("IndexedPB", TRUE, 15)>> : p \in SectionPrefixes})
  \cup Valid("request", {<<SectionPrefix(1, FALSE, 0), l, n>> : l \in Lines,
         n \in {Line("Literal", FALSE, FALSE, 0, A(7), A(3)), Indexed("NamePB", TRUE, 7)}})
  \cup Valid("encoder", {<<l, n>> : l \in EncoderOps,
         n \in {Indexed("Duplicate", TRUE, 31), Indexed("InsertName", TRUE, 0)}})
  \cup Valid("decoder", {<<l, Indexed("Ack", FALSE, 127)>> : l \in DecoderOps})
  \cup Valid("uvarint", {<<Uint(u), Uint(v)>> : u, v \in Uints})
  \cup {Message("request", <<SectionPrefix(1, FALSE, 0)>>, j) :
          j \in TooBig \cup {<<95>> \o Tail(x) : x \in TooLong}
                \cup {<<39, 200, 1>>, <<255, 36>>, <<255, 35>>}}
  \cup {Message("request", <<>>, j) : j \in TooBig \cup {<<0>>, <<0, 255>>}}
  \cup {Message("encoder", <<Indexed("SetCap", FALSE, 31)>>, j) :
          j \in TooBig \cup TooLong \cup {<<127, 200, 1>>, <<95, 20>>}}
  \cup {Message("decoder", <<Indexed("Ack", FALSE, 31)>>, j) : j \in TooBig}
  \cup {Message("uvarint", <<Uint(u)>>, <<192, 0, 1>>) : u \in Uints}
ASSUME NumberLengths == LengthsExact(Numbers \cup 0..300)
-----------------------------------------------------------------------------
FieldsRest ==
  /\ section = Section(TRUE, FALSE, FALSE, "") /\ fields = <<>> /\ verdict = "open" /\ http = NewHttp
ControlRest ==
  /\ conn = NewConn(TRUE) /\ bytes = <<>> /\ said = {}
  /\ uni = <<>> /\ read = <<>> /\ ended = <<>> /\ ok = <<>>
ContainersRest == kind = "tree" /\ impl = NoTree /\ abs = {}
RateRest == rlim = RatelimInit(0, 0) /\ level = 0 /\ refused = FALSE
WireRest ==
  /\ msg = Message("uvarint", <<>>, <<>>) /\ wire = <<>>
  /\ pos = 0 /\ reader = NewVarint /\ got = <<>> /\ werr = ""

Init ==
  /\ part \in {"fields", "control", "containers", "rate", "wire"}
  /\ IF part = "fields" THEN SectionInit ELSE FieldsRest
  /\ IF part = "control" THEN ControlInit ELSE ControlRest
  /\ IF part = "containers" THEN ContainersInit ELSE ContainersRest
  /\ IF part = "rate" THEN RateInit ELSE RateRest
  /\ IF part = "wire" THEN WireInit ELSE WireRest

Next ==
  /\ UNCHANGED part
  /\ \/ /\ part = "fields" /\ SectionNext
        /\ UNCHANGED <<control_vars, container_vars, rate_vars, wire_vars>>
     \/ /\ part = "control" /\ ControlNext
        /\ UNCHANGED <<section_vars, container_vars, rate_vars, wire_vars>>
     \/ /\ part = "containers" /\ ContainersNext
        /\ UNCHANGED <<section_vars, control_vars, rate_vars, wire_vars>>
     \/ /\ part = "rate" /\ RateNext
        /\ UNCHANGED <<section_vars, control_vars, container_vars, wire_vars>>
     \/ /\ part = "wire" /\ WireNext
        /\ UNCHANGED <<section_vars, control_vars, container_vars, rate_vars>>

Spec == Init /\ [][Next]_vars
=============================================================================

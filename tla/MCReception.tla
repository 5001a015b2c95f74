----------------------------- MODULE MCReception -----------------------------
EXTENDS ReceptionProps

F(name, value) == [name |-> name, value |-> value, digits |-> <<>>, dict |-> <<>>]
Digits(name, d) == [name |-> name, value |-> "digits", digits |-> d, dict |-> <<>>]
Prefix(n) == Unit("prefix", "", n)
Lines(fs) == [k |-> "lines", type |-> "", n |-> 0, fields |-> fs]
Bytes(n) == [i \in 1..n |-> Unit("bytes", "", 0)]

Get == <<F(":method", "GET"), F(":scheme", "http"), F(":authority", "a")>>
Rest == <<F(":path", "/"), Digits("content-length", <<2>>)>>
Connect == <<F(":method", "CONNECT"), F(":authority", "a")>>
Status(d) == <<Digits(":status", d)>>

H(ricnt, parts) == [type |-> "HEADERS", wide |-> FALSE,
  payload |-> <<Prefix(ricnt)>> \o [i \in DOMAIN parts |-> Lines(parts[i])]]
D(n, wide) == [type |-> "DATA", wide |-> wide, payload |-> Bytes(n)]
O(type, n) == [type |-> type, wide |-> FALSE, payload |-> Bytes(n)]

Trailers == H(2, <<<<F("x", "y")>>>>)
Requests == {
  <<H(1, <<Get, Rest>>), D(2, TRUE), Trailers>>,
  <<H(1, <<Get, Rest>>), D(1, FALSE), O("UNKNOWN", 0), D(1, FALSE)>>,
  <<H(0, <<Get, Rest>>), D(1, FALSE), D(2, FALSE)>>,
  <<H(0, <<Connect>>), D(1, FALSE), Trailers>>,
  <<H(1, <<Get, Rest>>), O("HEADERS", 0)>>,
  <<O("UNKNOWN", 2), H(1, <<Get \o Rest>>), O("DATA", 0), O("SETTINGS", 0)>>,
  <<D(1, FALSE)>>, <<O("HEADERS", 0)>>, <<H(2, <<Rest>>)>>}
Responses == {
  <<H(1, <<Status(<<1, 0, 0>>)>>), H(2, <<Status(<<2, 0, 0>>), <<Digits("content-length", <<1>>)>>>>), D(1, FALSE)>>,
  <<H(1, <<Status(<<1, 0, 0>>)>>), D(1, FALSE)>>,
  <<H(1, <<Status(<<2, 0, 0>>)>>), D(1, FALSE), Trailers, D(1, FALSE)>>,
  <<H(0, <<Status(<<2, 0, 4>>)>>), O("DATA", 0)>>}
MCScripts ==
  [end \in {"REQ", "RESP"}, s \in {1, 2} |->
     IF end = "REQ" THEN IF s = 1 THEN Requests ELSE {<<H(2, <<Get \o Rest>>)>>}
     ELSE IF s = 1 THEN Responses ELSE {<<H(2, <<Status(<<2, 0, 0>>)>>)>>}]
K(s, method) == [side |-> s, method |-> method]
MCSides == {K("REQ", ""), K("RESP", "GET"), K("RESP", "CONNECT"), K("RESP", "HEAD")}
=============================================================================

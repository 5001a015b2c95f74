---------------------------- MODULE FieldSection ----------------------------
(***************************************************************************)
(* One field section checked field by field, as conn_decode_headers and    *)
(* nghttp3_conn_read_bidi of lib/nghttp3_conn.c drive lib/nghttp3_http.c.  *)
(***************************************************************************)
EXTENDS HttpMsg

CONSTANTS
  Fields,      \* Fields[request]: the fields the peer may send
  Sections,    \* kinds of section: [request, trailers, connectProtocol, method]
  MaxFields    \* bound: fields of a section

VARIABLES
  section,     \* the kind of this section
  fields,      \* history: the fields read so far
  http,        \* stream->rx.http
  verdict      \* "open", "accepted", or "malformed"
section_vars == <<section, fields, http, verdict>>

SectionInit ==
  /\ section \in Sections
  /\ fields = <<>> /\ verdict = "open"
  /\ http = RecordRequestMethod(NewHttp, section.method)

ReadField(f) ==
  LET r == OnHeader(http, f, section.request, section.trailers, section.connectProtocol)
  IN  /\ verdict = "open" /\ Len(fields) < MaxFields
      /\ fields' = Append(fields, f) /\ http' = r.http
      /\ verdict' = IF r.rv = "malformed" THEN "malformed" ELSE "open"
      /\ UNCHANGED section

EndSection ==
  LET r == IF section.trailers THEN Ok(http)
           ELSE IF section.request THEN OnRequestHeaders(http) ELSE OnResponseHeaders(http)
  IN  /\ verdict = "open"
      /\ http' = r.http
      /\ verdict' = IF r.rv = "malformed" THEN "malformed" ELSE "accepted"
      /\ UNCHANGED <<section, fields>>

SectionNext == (\E f \in Fields[section.request] : ReadField(f)) \/ EndSection
-----------------------------------------------------------------------------
(* The rules of RFC 9110, 9114 and 9218 on a whole section.                *)

Named(name) == {i \in DOMAIN fields : fields[i].name = name}
Sent(name, value) == \E i \in Named(name) : fields[i].value = value
Number(d) ==
  LET n[i \in 0..Len(d)] == IF i = 0 THEN 0 ELSE n[i - 1] + d[i] * 10 ^ (Len(d) - i)
  IN  n[Len(d)]
AllDigits(d) == d # <<>> /\ \A i \in DOMAIN d : d[i] \in 0..9
IsNumber(d) == AllDigits(d) /\ Number(d) <= MAX_VARINT

SectionStatus ==
  LET s == Named(":status") IN IF s = {} THEN 0 ELSE Number(fields[CHOOSE i \in s : TRUE].digits)

PseudoAllowed(i) ==
  LET f == fields[i] IN
  /\ ~section.trailers
  /\ \A j \in 1..(i - 1) : IsPseudo(fields[j]) /\ fields[j].name # f.name
  /\ f.value \notin {"", "bad"}
  /\ IF section.request
     THEN f.name \in {":authority", ":method", ":path", ":scheme"}
            \cup (IF section.connectProtocol THEN {":protocol"} ELSE {})
     ELSE f.name = ":status" /\ Len(f.digits) = 3 /\ AllDigits(f.digits)
          /\ Number(f.digits) \in 100..999 \ {101}

LengthIgnored ==
  \/ section.trailers
  \/ /\ ~section.request /\ SectionStatus # 204
     /\ \/ SectionStatus \div 100 = 1
        \/ SectionStatus \div 100 = 2 /\ section.method = "CONNECT"
LengthAllowed(i) ==
  LengthIgnored \/ (/\ Named("content-length") = {i}
                    /\ IF ~section.request /\ SectionStatus = 204 THEN fields[i].digits = <<0>>
                       ELSE IsNumber(fields[i].digits))

FieldAllowed(i) ==
  LET f == fields[i] IN
  CASE IsPseudo(f) -> PseudoAllowed(i)
    [] f.name \in Disallowed \cup {"Upper"} -> FALSE
    [] f.name = "te" -> f.value = "trailers"
    [] f.name = "host" /\ section.request ->
         /\ f.value # ""
         /\ f.value = "bad" \/ \A j \in Named("host") \ {i} : fields[j].value = "bad"
    [] f.name = "content-length" -> LengthAllowed(i)
    [] OTHER -> TRUE

RequestComplete ==
  LET connect == Sent(":method", "CONNECT")
      present(n) == Named(n) # {}
      host == \E i \in Named("host") : fields[i].value # "bad"
  IN  IF connect /\ ~present(":protocol")
      THEN present(":authority") /\ ~present(":scheme") /\ ~present(":path")
      ELSE /\ present(":method") /\ present(":scheme") /\ present(":path")
           /\ present(":authority") \/ host
           /\ present(":protocol") => connect /\ present(":authority")
           /\ Sent(":scheme", "http") =>
                \/ Sent(":path", "/")
                \/ Sent(":path", "*") /\ Sent(":method", "OPTIONS")
Complete ==
  IF section.trailers THEN TRUE
  ELSE IF section.request THEN RequestComplete ELSE Named(":status") # {}

WellFormed == (\A i \in DOMAIN fields : FieldAllowed(i)) /\ Complete

\* the body the message announces: -1 any
AnnouncedLength ==
  LET s == SectionStatus
      tunnel == IF section.request THEN Sent(":method", "CONNECT") ELSE section.method = "CONNECT"
      lengths == IF LengthIgnored THEN {} ELSE Named("content-length")
  IN  IF ~section.request /\ s \div 100 = 1 THEN -1
      ELSE IF ~section.request /\ (section.method = "HEAD" \/ s \in {204, 304}) THEN 0
      ELSE IF tunnel \/ lengths = {} THEN -1
      ELSE Number(fields[CHOOSE i \in lengths : TRUE].digits)

\* A request's priority: the last member of a key wins, unless one of the
\* fields could not be parsed.
Members == {<<i, k>> \in (1..MaxFields) \X (1..2) :
              i \in Named("priority") /\ k \in DOMAIN fields[i].dict}
Unparsed ==
  \E i \in Named("priority") :
    fields[i].value = "bad" \/ ParsePriority(NewHttp.pri, fields[i].dict) = BadPri
PriorityOf(key, default) ==
  LET of == {m \in Members : fields[m[1]].dict[m[2]].key = key}
      last == CHOOSE m \in of : \A n \in of : n[1] < m[1] \/ (n[1] = m[1] /\ n[2] <= m[2])
  IN  IF of = {} THEN default ELSE fields[last[1]].dict[last[2]].num
PriorityMeant ==
  /\ "PRIORITY" \in http.flags <=> (Named("priority") # {} /\ ~Unparsed)
  /\ "PRIORITY" \in http.flags =>
       http.pri = [urgency |-> PriorityOf("u", 3), inc |-> PriorityOf("i", 0) = 1]

(* A field section is accepted exactly when it is well-formed as a whole,  *)
(* however its pseudo header fields, removed fields and duplicates are     *)
(* ordered; the flags and counters kept between two fields then say how    *)
(* long the body is to be and which priority the request asks for.         *)
FieldsWellFormed ==
  /\ verdict = "malformed" => ~WellFormed
  /\ verdict = "accepted" =>
       /\ WellFormed
       /\ ~section.trailers => http.contentLength = AnnouncedLength
       /\ section.request /\ ~section.trailers => PriorityMeant
=============================================================================

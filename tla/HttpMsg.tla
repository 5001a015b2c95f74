------------------------------ MODULE HttpMsg ------------------------------
(***************************************************************************)
(* HTTP message semantics: lib/nghttp3_http.c, and the message states of   *)
(* lib/nghttp3_stream.c.                                                   *)
(*                                                                         *)
(* A field is [name, value, digits, dict].  Values that the code tells     *)
(* apart by their octets are classes of strings: "" is the empty value,    *)
(* "bad" one with an octet the field does not allow.  digits is the value  *)
(* of content-length and of :status, 10 for an octet that is no digit;     *)
(* dict the value of priority as a dictionary of members [key, type, num], *)
(* with the key "error" where parsing stops.                               *)
(***************************************************************************)
EXTENDS Integers, Sequences

CONSTANT MAX_VARINT   \* NGHTTP3_MAX_VARINT, the largest content-length

ASSUME HttpAssumption == MAX_VARINT \in Nat

Methods == {"HEAD", "CONNECT", "OPTIONS"}      \* NGHTTP3_HTTP_FLAG_METH_ALL
Disallowed == {"connection", "keep-alive", "proxy-connection",
               "transfer-encoding", "upgrade"}

\* nghttp3_http_state of a new stream
NewHttp == [flags |-> {}, contentLength |-> -1, recv |-> 0, status |-> -1,
            pri |-> [urgency |-> 3, inc |-> FALSE]]

Mark(http, flags) == [http EXCEPT !.flags = @ \cup flags]
Ok(http) == [http |-> http, rv |-> "ok"]
Removed(http) == [http |-> http, rv |-> "remove"]
Malformed(http) == [http |-> http, rv |-> "malformed"]

-----------------------------------------------------------------------------
(* Values.                                                                 *)

\* -1 stands for an error
ParseUint(digits) ==
  LET n[i \in 0..Len(digits)] ==
        IF i = 0 THEN 0
        ELSE IF \/ n[i - 1] = -1 \/ digits[i] = 10
                \/ n[i - 1] > (MAX_VARINT - digits[i]) \div 10 THEN -1
        ELSE 10 * n[i - 1] + digits[i]
  IN  IF digits = <<>> THEN -1 ELSE n[Len(digits)]

ParseStatusCode(d) ==
  IF Len(d) = 3 /\ d[1] \in 1..9 /\ d[2] \in 0..9 /\ d[3] \in 0..9
  THEN 100 * d[1] + 10 * d[2] + d[3] ELSE -1

BadPri == [urgency |-> -1, inc |-> FALSE]
\* the last member of a key decides, other keys are skipped
ParsePriority(pri, dict) ==
  LET Member(m, p) ==
        CASE m.key = "u" /\ m.type = "integer" /\ m.num \in 0..7 -> [p EXCEPT !.urgency = m.num]
          [] m.key = "i" /\ m.type = "boolean" -> [p EXCEPT !.inc = m.num = 1]
          [] m.key \notin {"u", "i", "error"} -> p
          [] OTHER -> BadPri
      p[i \in 0..Len(dict)] ==
        IF i = 0 THEN pri ELSE IF p[i - 1] = BadPri THEN BadPri ELSE Member(dict[i], p[i - 1])
  IN  p[Len(dict)]

GoodValue(f) == f.value # "bad"          \* the check_ function of the field

-----------------------------------------------------------------------------
(* One field: nghttp3_http_on_header.                                      *)

PseudoNames == {":authority", ":method", ":path", ":scheme", ":protocol", ":status"}
IsPseudo(f) == f.name \in PseudoNames \cup {":unknown"}

\* check_pseudo_header, then `more' is marked
CheckPseudo(http, f, more) ==
  IF f.name \in http.flags \/ f.value = "" THEN Malformed(http)
  ELSE Ok(Mark(http, {f.name} \cup more))

\* what the value of a request's pseudo header field marks
PseudoFlags(f) ==
  CASE f.name = ":method" -> {f.value} \cap Methods
    [] f.name = ":path" -> {f.value} \cap {"/", "*"}
    [] f.name = ":scheme" -> {f.value} \cap {"http"}
    [] OTHER -> {}

SetContentLength(http, f) ==
  IF http.contentLength # -1 \/ ParseUint(f.digits) = -1 THEN Malformed(http)
  ELSE Ok([http EXCEPT !.contentLength = ParseUint(f.digits)])

BadPriority(http) ==
  [http EXCEPT !.flags = (@ \ {"PRIORITY"}) \cup {"BAD_PRIORITY"}]

OnPriority(http, f, trailers) ==
  IF ~GoodValue(f) THEN Removed(BadPriority(http))
  ELSE IF trailers \/ "BAD_PRIORITY" \in http.flags THEN Ok(http)
  ELSE LET pri == ParsePriority(http.pri, f.dict)
       IN  IF pri = BadPri THEN Ok(BadPriority(http))
           ELSE Ok(Mark([http EXCEPT !.pri = pri], {"PRIORITY"}))

\* the end of both http_request_on_header and http_response_on_header
OtherField(http, f) ==
  IF IsPseudo(f) \/ f.name \in Disallowed \/ (f.name = "te" /\ f.value # "trailers")
  THEN Malformed(http)
  ELSE IF GoodValue(f) THEN Ok(http) ELSE Removed(http)

RequestOnHeader(http, f, trailers, connectProtocol) ==
  CASE f.name \in PseudoNames \ {":status"} ->
         IF GoodValue(f) /\ (f.name = ":protocol" => connectProtocol)
         THEN CheckPseudo(http, f, PseudoFlags(f)) ELSE Malformed(http)
    [] f.name = "host" ->
         IF GoodValue(f) THEN CheckPseudo(http, f, {}) ELSE Removed(http)
    [] f.name = "content-length" ->
         IF trailers THEN Removed(http) ELSE SetContentLength(http, f)
    [] f.name = "priority" -> OnPriority(http, f, trailers)
    [] OTHER -> OtherField(http, f)

ResponseOnHeader(http, f, trailers) ==
  LET status == ParseStatusCode(f.digits) IN
  CASE f.name = ":status" ->
         IF status \in {-1, 101} THEN Malformed(http)
         ELSE CheckPseudo([http EXCEPT !.status = status], f, {})
    [] f.name = "content-length" ->
         IF trailers THEN Removed(http)
         ELSE IF http.status = 204
         THEN IF http.contentLength # -1 \/ f.digits # <<0>> THEN Malformed(http)
              ELSE Removed([http EXCEPT !.contentLength = 0])
         ELSE IF \/ http.status \div 100 = 1
                 \/ (http.status \div 100 = 2 /\ "CONNECT" \in http.flags)
         THEN Removed(http)
         ELSE SetContentLength(http, f)
    [] OTHER -> OtherField(http, f)

\* an empty name lets pseudo header fields follow
OnHeader_Bug(http, f, request, trailers, connectProtocol) ==
  LET regular == IF f.name = "" \/ IsPseudo(f) THEN http ELSE Mark(http, {"PSEUDO_DISALLOWED"}) IN
  CASE f.name = "" -> Removed(regular)
    [] IsPseudo(f) /\ (f.name = ":unknown" \/ trailers \/ "PSEUDO_DISALLOWED" \in http.flags) ->
         Malformed(http)
    [] f.name = "bad" -> Removed(regular)
    [] f.name = "Upper" -> Malformed(http)
    [] OTHER -> IF request THEN RequestOnHeader(regular, f, trailers, connectProtocol)
                ELSE ResponseOnHeader(regular, f, trailers)
OnHeader(http, f, request, trailers, connectProtocol) ==
  LET regular == IF IsPseudo(f) THEN http ELSE Mark(http, {"PSEUDO_DISALLOWED"}) IN
  CASE f.name = "" -> Removed(regular)
    [] IsPseudo(f) /\ (f.name = ":unknown" \/ trailers \/ "PSEUDO_DISALLOWED" \in http.flags) ->
         Malformed(http)
    [] f.name = "bad" -> Removed(regular)
    [] f.name = "Upper" -> Malformed(http)
    [] OTHER -> IF request THEN RequestOnHeader(regular, f, trailers, connectProtocol)
                ELSE ResponseOnHeader(regular, f, trailers)

-----------------------------------------------------------------------------
(* The end of a field section.                                             *)

Has(http, flags) == flags \subseteq http.flags

CheckPathFlags(http) ==
  \/ "http" \notin http.flags
  \/ "/" \in http.flags \/ Has(http, {"OPTIONS", "*"})

OnRequestHeaders(http) ==
  LET connect == "CONNECT" \in http.flags
      protocol == ":protocol" \in http.flags
      authority == ":authority" \in http.flags
      tunnel == [http EXCEPT !.contentLength = -1]
  IN  IF connect /\ ~protocol
      THEN IF {":scheme", ":path"} \cap http.flags # {} \/ ~authority
           THEN Malformed(http) ELSE Ok(tunnel)
      ELSE IF \/ ~Has(http, {":method", ":path", ":scheme"})
              \/ (~authority /\ "host" \notin http.flags)
              \/ (protocol /\ (~connect \/ ~authority))
              \/ ~CheckPathFlags(http)
      THEN Malformed(http) ELSE Ok(IF protocol THEN tunnel ELSE http)

ExpectResponseBody(http) ==
  "HEAD" \notin http.flags /\ http.status \div 100 # 1 /\ http.status \notin {304, 204}

OnResponseHeaders(http) ==
  IF ":status" \notin http.flags THEN Malformed(http)
  ELSE IF http.status \div 100 = 1
  THEN Ok([http EXCEPT !.flags = (@ \cap Methods) \cup {"EXPECT_FINAL"},
                       !.contentLength = -1, !.status = -1])
  ELSE LET final == [http EXCEPT !.flags = @ \ {"EXPECT_FINAL"}]
       IN  Ok(IF ~ExpectResponseBody(http) THEN [final EXCEPT !.contentLength = 0]
              ELSE IF "CONNECT" \in http.flags THEN [final EXCEPT !.contentLength = -1]
              ELSE final)

\* nghttp3_http_record_request_method, on the client's stream
RecordRequestMethod(http, method) == Mark(http, {method} \cap {"CONNECT", "HEAD"})

-----------------------------------------------------------------------------
(* The body and the message: a stream's rx is [side, hstate, http], side   *)
(* "REQ" on a server and "RESP" on a client.                               *)

\* a body that is too short
OnRemoteEndStream_Bug(http) == "EXPECT_FINAL" \notin http.flags
OnRemoteEndStream(http) ==
  "EXPECT_FINAL" \notin http.flags /\ http.contentLength \in {-1, http.recv}

\* nghttp3_http_on_data_chunk
Received(http, n) == [http EXCEPT !.recv = @ + n]
DataChunkFits(http, n) ==
  /\ "EXPECT_FINAL" \notin http.flags
  /\ http.contentLength = -1 \/ http.recv + n <= http.contentLength

Tunnels(rx) ==
  "CONNECT" \in rx.http.flags /\ (rx.side = "RESP" => rx.http.status \div 100 = 2)

Moved(rx, hstate) == [rx |-> [rx EXCEPT !.hstate = hstate], rv |-> "ok"]
Stays(rx, rv) == [rx |-> rx, rv |-> rv]

\* nghttp3_stream_transit_rx_http_state; "assert" is an assertion or
\* nghttp3_unreachable
Transit(rx, event) ==
  LET interim == rx.side = "RESP" /\ rx.http.status = -1
      expectFinal == "EXPECT_FINAL" \in rx.http.flags
      unexpected == Stays(rx, "FRAME_UNEXPECTED")
      Begin(what, end) == IF event = end THEN Moved(rx, what) ELSE Stays(rx, "assert")
  IN  CASE rx.hstate = "INITIAL" ->
             IF event = "HEADERS_BEGIN" THEN Moved(rx, "HEADERS_BEGIN") ELSE unexpected
        [] rx.hstate = "HEADERS_BEGIN" -> Begin("HEADERS_END", "HEADERS_END")
        [] rx.hstate = "DATA_BEGIN" -> Begin("DATA_END", "DATA_END")
        [] rx.hstate = "TRAILERS_BEGIN" -> Begin("TRAILERS_END", "HEADERS_END")
        [] rx.hstate = "END" -> unexpected
        [] rx.hstate = "TRAILERS_END" /\ event # "MSG_END" -> unexpected
        [] event = "MSG_END" ->
             IF OnRemoteEndStream(rx.http) THEN Moved(rx, "END")
             ELSE Stays(rx, "MALFORMED_MESSAGING")
        [] event = "HEADERS_BEGIN" ->
             IF rx.hstate = "HEADERS_END" /\ interim THEN Moved(rx, "HEADERS_BEGIN")
             ELSE IF Tunnels(rx) THEN unexpected ELSE Moved(rx, "TRAILERS_BEGIN")
        [] event = "DATA_BEGIN" ->
             IF rx.hstate = "HEADERS_END" /\ rx.side = "RESP" /\ expectFinal
             THEN unexpected ELSE Moved(rx, "DATA_BEGIN")
        [] OTHER -> Stays(rx, "assert")

\* nghttp3_stream_empty_headers_allowed
EmptyHeadersAllowed(rx) == rx.hstate = "TRAILERS_BEGIN"
=============================================================================

--------------------------- MODULE ReceptionProps ---------------------------
(* What the receiving side of a request stream promises.                   *)
EXTENDS Reception

Open(s) == ~stream[s].shutRd /\ s \notin closed

\* the stream as if what was delivered had come in one piece, with every
\* insertion there before it
Whole(s) ==
  ReadStream(First(stream[s].rstate.state = "IGN_REST"), SubSeq(wire[s], 1, at[s]), fin[s],
             [icnt |-> MaxInserts, parked |-> 0, limit |-> 1])

\* a FIN right after the prefix of a section that has to wait: nothing is
\* buffered, and the truncated section is never reported
CutAtPrefix(s) == fin[s] /\ at[s] > 0 /\ wire[s][at[s]].k = "prefix"

\* what was delivered ends the stream, at the end of a field section
EndsWithSection(s) == fin[s] /\ at[s] > 0 /\ wire[s][at[s]].k = "lines"

\* the callbacks of c, with that section alone told that it ends the stream,
\* and not even that one if the FIN came on its own after it was read
Expected(s, c) ==
  LET ev == c.st.ev
      ends == {i \in DOMAIN ev : ev[i][1] \in {"end_headers", "end_trailers"}}
      told(i) == EndsWithSection(s) /\ ~alone[s] /\ i = Max(ends)
  IN  [i \in DOMAIN ev |-> IF i \in ends THEN <<ev[i][1], IF told(i) THEN "fin" ELSE "">> ELSE ev[i]]

(* The callbacks a stream makes, and the error it ends with, depend on its *)
(* bytes alone: neither on the pieces they come in nor on where the stream *)
(* is parked, buffers and is resumed (nghttp3_conn_read_bidi,              *)
(* conn_process_blocked_stream_data).  One argument is excepted: the fin   *)
(* of end_headers and end_trailers (p == end && fin).  It is 1 if the      *)
(* stream ends with the section and the FIN comes with its last byte or    *)
(* while the stream is parked, and 0 for every other section; but 0 also   *)
(* if the FIN comes in a call of its own after that byte was read, where   *)
(* nghttp3.h:2073 says "If the stream ends with this HTTP field section,   *)
(* |fin| is set to nonzero".                                               *)
SameAsWhole ==
  \A s \in Ids :
    Open(s) /\ failed[s] # "DECOMPRESSION_FAILED" /\ ~CutAtPrefix(s) =>
      \E w \in {Whole(s)} :
      /\ failed[s] # "assert"
      /\ failed[s] # "none" => Failed(w) /\ w.rv = failed[s]
      /\ Running /\ ~stream[s].blocked => ~Failed(w) /\ stream[s].ev = Expected(s, w)
      /\ Running /\ stream[s].blocked /\ ~Failed(w) => IsPrefix(stream[s].ev, Expected(s, w))

(* Every byte delivered is given back to flow control exactly once: by the *)
(* call that read it, by a later call for what was buffered, or by the     *)
(* application for a body (nghttp3_deferred_consume).                      *)
CreditConserved ==
  \A s \in Ids :
    Running => at[s] = stream[s].credit + Buffered(stream[s]) + stream[s].rx.http.recv

Calls(s) == [i \in DOMAIN stream[s].ev |-> stream[s].ev[i][1]]
Which(s, what) == {i \in DOMAIN stream[s].ev : Calls(s)[i] = what}

(* An application sees a message and nothing else: its fields between the  *)
(* callbacks that begin and end a section, a body only after the final     *)
(* headers, trailers once and last, nothing after the end of the stream,   *)
(* and at that end as many bytes of body as content-length said.           *)
MessageShape ==
  \A s \in Ids :
    LET e == Calls(s)
        open(i) == IF i = 1 THEN FALSE ELSE
                   \E j \in 1..(i - 1) : /\ e[j] \in {"begin_headers", "begin_trailers"}
                                         /\ \A k \in j..(i - 1) : e[k] \notin {"end_headers", "end_trailers"}
        headers == Cardinality(Which(s, "end_headers"))
        ended == Which(s, "end_stream") # {}
    IN  /\ \A i \in DOMAIN e :
             /\ e[i] = "field" => open(i)
             /\ e[i] = "end_headers" => open(i) /\ \A j \in 1..(i - 1) : e[j] # "begin_trailers"
             /\ e[i] = "end_trailers" => open(i) /\ \E j \in 1..(i - 1) : e[j] = "begin_trailers"
             /\ e[i] = "begin_headers" => \A j \in 1..(i - 1) : e[j] \notin {"data", "begin_trailers"}
             /\ e[i] \in {"data", "begin_trailers", "end_stream"} =>
                  ~open(i) /\ \E j \in 1..(i - 1) : e[j] = "end_headers"
             /\ e[i] = "data" => \A j \in 1..(i - 1) : e[j] # "begin_trailers"
             /\ e[i] = "end_stream" => i = Len(e)
        /\ Cardinality(Which(s, "begin_trailers")) <= 1
        /\ side.side = "REQ" => headers <= 1
        /\ ended => stream[s].rx.http.contentLength \in {-1, Cardinality(Which(s, "data"))}
=============================================================================

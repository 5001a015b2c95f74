# A TLA+ development of nghttp3

nghttp3 is an HTTP/3 library in C: it frames messages, compresses header
fields with QPACK, and schedules what each stream of a QUIC connection sends.
It does no I/O of its own. The application calls it with stream data that has
arrived and asks it for stream data to send; the library answers through
callbacks. It is single threaded. What makes it hard is not threads but the
network: request streams, the QPACK streams and acknowledgments are delivered
independently, and any call may come between any two others.

All paths below are relative to the repository (`src/`).

## 1. Inventory

| Component | State | Operations |
|---|---|---|
| QPACK dynamic table (`lib/nghttp3_qpack.c`, `nghttp3_qpack_context`) | ring buffer of entries, their size, the sum of all sizes ever inserted, next absolute index | add with eviction, test an entry for referencing or draining |
| QPACK encoder | table, capacity and its pending changes, known received count, references of unacknowledged sections by stream, skip list of blocked streams, heap of smallest counts, hash map of entries | set capacity, set blocked streams, encode a section, read decoder stream, acknowledge everything |
| QPACK decoder | table, capacity, count of insertions the peer was told of, buffered acknowledgments, one context per section | read encoder stream, read request stream, cancel, write decoder stream |
| Parking (`lib/nghttp3_conn.c`) | heap of blocked streams by Required Insert Count, buffered input of each | park, resume after encoder stream data, shut, close |
| Stream transmission (`lib/nghttp3_stream.c`) | frame queue, output queue, chunks, write and acknowledgment offsets | fill the queue, write data, advance offsets |
| Scheduler (`lib/nghttp3_tnode.c`, `lib/nghttp3_pq.c`) | one heap per urgency, cycle of each stream | schedule, unschedule, block, unblock, resume |
| Connection transmission | the streams above, flow control flags | `writev_stream`, `add_write_offset`, `add_ack_offset` |
| Reception (`lib/nghttp3_conn.c`) | read state of each stream, buffered input, settings of the peer, GOAWAY and priority being read | read a piece of a bidirectional or unidirectional stream, resume, shut, close |
| HTTP messages (`lib/nghttp3_http.c`) | flags, status, content length, body received, priority, message state | one field, end of a section, body, end of stream |
| Settings, GOAWAY, priorities | flags, identifiers sent and received, settings | settings entries, shutdown notice, shutdown, PRIORITY_UPDATE |
| Identifier bookkeeping (`lib/nghttp3_idtr.c`, `lib/nghttp3_gaptr.c`), rate limit (`lib/nghttp3_ratelim.c`) | gaps; tokens, carry, time stamp | open; drain |
| Containers (`lib/nghttp3_ksl.c`, `_map.c`, `_pq.c`, `_ringbuf.c`) | tree, hash table, heap, ring | insert, remove, search, resize |
| Codecs (`lib/nghttp3_conv.c`, QPACK's readers and writers, Huffman) | a number, string or code that was cut | write, read a piece |

How they interact: `submit_request` queues a HEADERS frame; when the scheduler
picks the stream, `nghttp3_stream_fill_outq` encodes the fields and puts the
instructions on the encoder stream and the section on the request stream.
At the peer, encoder stream data feeds the table and then resumes parked
streams in the same call; request stream data is decoded or buffered. What the
decoder acknowledges leaves with the next write of the decoder stream, and
comes back to the encoder, which only then may evict.

What is hard, and what correctness means for each:

* **QPACK encoder.** An entry must survive until every section that refers to
  it is acknowledged or cancelled, however acknowledgments, capacity changes
  and new sections interleave; the streams it counts as blocked must be those
  the peer may have to park.
* **QPACK decoder and parking.** No stream waits for an insertion that is
  already there, none reads one that is not, data keeps its order, the limit
  on parked streams holds, and no acknowledgment is early or doubled.
* **Both together.** The tables agree wherever both have an entry, neither
  side ever fails the connection of the other, and the fields delivered are
  those submitted.
* **Transmission, scheduling.** A buffer is freed only after it is written and
  acknowledged; a stream with something to send that is not blocked is
  scheduled; no stream of an urgency starves.
* **Reception, shutdown, priorities.** Frames are accepted only in the message
  states that allow them; GOAWAY identifiers never grow; a drained connection
  is recognised; a priority reaches its stream in whatever order they arrive.

`PROJECT.json` lists each hazard with its line and the properties aimed at it.

## 2. Modules

| Module | Models |
|---|---|
| `QpackTable` | the dynamic table and the section prefix, as pure operators |
| `QpackEncoder` | the encoder against an arbitrary peer |
| `QpackEncoderProps` | its properties and the inductive invariant `IInv` |
| `QpackDecoder` | the decoder, and the parking of streams, against an arbitrary peer |
| `QpackDecoderProps` | their properties |
| `HeaderDelivery` | the abstract specification: on each stream, fields come out as they went in |
| `Qpack` | an encoder and a decoder (both by `INSTANCE`) joined by streams |
| `QpackProps` | what they achieve together; `DeliversHeaders` is the refinement of `HeaderDelivery` |
| `QpackTableProofs`, `QpackEncoderProofs`, `QpackDecoderProofs`, `QpackProofs` | their theorems; the last about both sides |
| `ByteStream` | the abstract specification of a write side: bytes are written, accepted and acknowledged in order, reported exactly, ended once |
| `OutQueue` | the output queue of a stream, as operators on a record |
| `StreamTx` | the write side of a request stream and the encoder stream before it, driven by application and QUIC |
| `StreamTxProps`, `StreamTxProofs` | its properties; `RequestIsByteStream` is the refinement of `ByteStream`; its theorems |
| `Sched` | which of a server's streams writes next, and the priorities that decide it |
| `SchedProps`, `SchedProofs` | its properties; its theorems |
| `HttpMsg` | the HTTP message a stream carries: the rules on each field, on sections, body and end |
| `BidiRx` | reading a request stream: frames, parking and buffering, one call of `nghttp3_conn_read_bidi` |
| `Reception` | the request streams of a connection, delivered in pieces while insertions arrive |
| `ReceptionProps` | what the receiving side promises |
| `ControlRx`, `ControlTx` | unidirectional streams as they are read, and what this library writes on them |
| `Control` | such streams delivered in pieces to a connection, and the properties of it |
| `Shutdown`, `ShutdownProps`, `ShutdownProofs` | GOAWAY between a server and a client of this library; its properties; its theorems |
| `FieldSection` | a section read field by field; `WellFormed` is the definition it is compared with |
| `QpackWire`, `Huffman` | QPACK instructions and strings, byte by byte |
| `Wire` | bytes of QPACK or of variable-length integers delivered in pieces |
| `Ksl`, `Tables` | the tree with the gap tracker on top of it; heap, ring buffer, hash table |
| `Containers` | each container next to the abstract value it stands for |
| `RateLimit`, `RateLimitProofs` | the token bucket next to an ideal one, and the theorem that they agree |
| `MCComponents` | the last five groups share no state: one instance with a variable that says which of them a behaviour is about |
| other `MC*` | small instances for TLC |

Correspondence, for the decisions a reader will ask about:

* **A table** is a record `first, next, sum, ent`. Sizes are not stored but
  computed from the sums each entry remembers, which is also how
  `qpack_encoder_can_index` and `qpack_context_can_reference` compute them.
* **One call of `nghttp3_qpack_encoder_encode`** is `BeginEncode`, one
  `EncodeNv` per field and `FinishEncode`, with every other action disabled in
  between: the split lets TLC choose the fields one by one and does not add
  interleavings. `refs` stands for `encoder->streams`, `blocked` for the skip
  list, `MinCnts` for the contents of `min_cnts`.
* **The search in the hash map** (`encoder_qpack_map_find`) is `Usable`,
  `Exact` and `PostBaseMatch`. The code walks a bucket from the newest entry;
  the operators take the largest index, which is the same entry.
  `EncodeNv`'s disjuncts are the branches of `nghttp3_qpack_encoder_encode_nv`.
* **A section** is a sequence of tokens: encoded Required Insert Count, base,
  one per line, and `fin`. Tokens are delivered one at a time, so a section may
  be cut between any two. Instructions likewise. A varint cut in the middle
  changes no shared state and is not modelled.
* **`nghttp3_conn_read_qpack_encoder`** reads instructions and then loops over
  the blocked streams. `mode` says where in the call the connection is, because
  callbacks run during it; only the shutdown of a stream's read side is
  allowed there, a close is not made from a callback.
* **A buffer of the output queue** is a record: its type, the chunk it lies in,
  and `begin`, `pos`, `last`. A chunk's bytes are not modelled; `content`, a
  history, says of every byte of the stream whether it belongs to the
  application. `OutQueue` states both offsets' walks over the queue
  (`AddOutqOffset`, `UpdateAckOffset`) as what they arrive at.
* **`nghttp3_conn_writev_stream`** calls the data reader, so it is several
  actions of `StreamTx`: `WritevBegin`, one `Fill...` per frame or call of the
  reader, `FinishWritev`. No other call of the library is made from the reader.
  The encoder stream goes first (`WritevEncoder`), and again after new
  instructions were written, as in `conn_writev_stream`.
* **Scheduling in `StreamTx`** is one bit, as there is one request stream. When
  `nghttp3_conn_add_write_offset` does not reach
  `NGHTTP3_STREAM_MIN_WRITELEN` it leaves the bit alone; `StreamTx` does not
  count those bytes and leaves the choice open. `Sched` counts them.
* **What a stream holds** is reduced in `Sched` to a header section and a body
  not yet serialised, the number of units in the output queue and an empty
  buffer that carries the end. A heap is the set of its streams; its top is the
  least by `cycle_less`, which the binary heap returns as long as that is an
  order (`CyclesComparable`).
* **A piece of a request stream** is a sequence of units: a frame type, a
  length, a field section prefix, a group of field lines, a byte of body. The
  first part of an integer is a unit of its own (`half`), so that every cut the
  code must survive is a cut between two units. `Pass` is one pass of the loop of
  `nghttp3_conn_read_bidi`, `ReadBidi` the call: what it processes (`p`,
  `*pnproc`) and what it returns (`n`, to be given back to flow control) are kept
  apart, as in the code. The static data of a section is decoded by
  `conn_decode_headers`; here a `lines` unit carries its fields, and the
  decoder's table is reduced to its Insert Count, because `QpackDecoder` has the
  rest. `ev` lists the callbacks made, each with what it is told; `alone` is a
  history, which tells a FIN that came in a call of its own from one that came with data.
* **A field** is its name, one of a few values (`bad` stands for every value the
  check of that field refuses), digits where they are parsed, and the members of
  a dictionary where it is one. `PSEUDO_DISALLOWED` and the other flags of
  `nghttp3_http_state` are the set `flags`.
* **`conn` of `ControlRx`** is the part of `nghttp3_conn` that control frames
  change; `ev` lists the callbacks made and the calls into the QPACK encoder and
  the scheduler, in order. `remote.field = -1` stands for the default,
  `NGHTTP3_VARINT_MAX`.
* **`ControlTx.Written`** is what `nghttp3_conn` and `nghttp3_stream_write_*`
  put on the control stream for given settings and frames; `Control` feeds it
  back to `ControlRx`.
* **`Shutdown`** names client stream 4n and GOAWAY identifier 4n both n. QUIC
  is three channels: first data of each stream in any order, the client's control
  stream and the server's in theirs. The tracker of identifiers is the set it
  stands for (`Ksl` checks that), including the gap it drops when there are too
  many (32 in the code).
* **The tree of `Ksl`** is a nested record. Linked leaves are the order of the
  leaves, an iterator a position in it. A separator may be larger than any key
  below it, as in the code, which is why each block carries its `keys`.
* **A number being read** in `QpackWire` is `left` and `shift`, a string being
  read `left` bytes to go and, if Huffman coded, the path into the code. The
  decoding table of `lib/nghttp3_qpack_huffman_data.c` tabulates that walk four
  bits at a time; `Nibble` takes the same four bits. The codes themselves are
  rebuilt from their lengths, as the code is canonical.
* **`derr`, `ebad`** say which error the connection failed with; nothing
  happens afterwards.

## 3. Runs

Entries take 40 bytes (32 of overhead and two strings of 4), so that 80 bytes
are two entries. Two entries are enough for an eviction, a draining entry and a
duplicate; the encoded Required Insert Count wraps at four.

| Run | Shows | Bounds |
|---|---|---|
| `encoder_limits` | pins, blocked streams, capacity changes of the encoder against any acknowledgments, legal or not, with every representation of a field | 3 streams, at most 2 with references, 4 insertions, capacities up to the hard limit and one above it, decoder limit of a few instructions |
| `decoder` | the decoder and parking against arbitrary instructions and tokens, with shut and closed streams | 2 streams, 3 insertions, two buffered tokens, one blocked stream |
| `qpack` | both sides: refinement of `HeaderDelivery`, agreement of the tables and of the counts; under fairness everything is delivered and acknowledged | 2 streams of 1 section of 2 fields, 4 insertions, 1 blocked stream |
| `qpack_lifecycle` | a stream closed at any time by the receiver, parked or not, and the capacity reduced and restored while sections are in flight | 3 sections on 2 streams, at most 2 on one, 2 insertions, 2 changes between 40 and 80 |
| `stream_tx` | output queue, offsets, chunks and end of a request stream; refinement of `ByteStream` | one interim response, a response and trailers, bodies of up to two pieces, 2 vectors per call, one stall; no encoder instructions |
| `stream_tx_live` | under fairness a stream that the application has finished, and whose write side is not shut, is sent to its end and every byte of the application's memory is reported acknowledged, with the encoder stream written before it | instructions of 1 (copied) and 3 bytes (own buffer), 1 vector per call, one stall |
| `sched` | heaps, cycles and wakeups while priorities change, who has the last word on a priority; under fairness no stream starves | 2 streams, urgencies 0 (not incremental) and 1 (incremental), 2 changes of priority of which one may be a stall, counter modulo 4 with a window of 1 |
| `shutdown` | GOAWAY against streams and priorities that arrive in any order; under fairness the connection drains | 3 requests, 2 PRIORITY_UPDATEs, a notice and a shutdown, one gap remembered, one stream reset before its data |
| `stream_rx` | request streams cut anywhere, parked, resumed, shut, closed: callbacks, errors and credit are those of the uncut stream, but for one argument (section 6) | 2 streams, 9 scripts of requests and 4 of responses, 2 insertions, 1 blocked stream, buffers of 2 units, all cuts |
| `components` | every field section, control stream, container, token bucket and wire format against its definition | sections of up to 5 fields, out of 22 for a request and 12 for a response; some 450 control streams with all cuts; trees of degree 2 with 12 keys, heaps of 7, tables of 2 to 6 bits with 3 hash functions, rings of 5; integers of 5 bits and ticks of a quarter for the bucket; QPACK integers of 20 bits, strings of up to 8 bytes |
| `unacked_eviction`, `shut_write_reopened` | disagreements between code and documentation, see section 6 | |

Bounds are named constants: `MaxLines`, `MaxRefs`, `MaxInserts`, `MaxSections`,
`TotalSections`, `MaxBuffered`, `MaxFields`, `MaxInsertsReceived`,
`MaxCapUpdates`, `MaxInfo`, `MaxReads`, `MaxStalls`, `MaxChanges`, `MaxShut`,
`Requests`, `MaxUpdates`, `MaxNotices`, `MaxShutdowns`, `MaxRing`, `MaxTime`. They cut
behaviours short and change nothing else. Symmetry is used for streams
or values, where they are interchangeable model values; never in a run with
liveness.

A *stall* is a refused offer, a stream blocked by flow control or a reader that
would block. In `StreamTx` a chunk has 4 bytes instead of 4096, field sections
of up to 2 are copied (128 in the code, `NGHTTP3_STREAM_MAX_COPY_THRES`), and 4 bytes unsent are enough
(`NGHTTP3_MIN_UNSENT_BYTES`, 4096): a chunk takes a frame header and a small
section, so that merged buffers, a section of its own and a second chunk all
occur. In `stream_tx` the header blocks come without encoder instructions, which
would multiply its states: the encoder stream is empty there, and that `OffsetsAgree`
and `ChunksLive` hold of it rests on the theorems `StreamOffsetsAgree` and
`StreamChunksLive`, which are about both streams. `stream_tx_live` has the
instructions, but checks liveness only. A unit of `Sched` is `NGHTTP3_STREAM_MIN_WRITELEN`; the small counter
wraps after a few turns.

The bounds of `components` are chosen per part. A tree with blocks of 2 to 4 keys
and 12 keys has three levels, so that an inner block is split, shifted and merged.
With hashes of 6 bits a table of 4 slots doubles several times; the hash functions
are spread, clustered and around the end of the table, and a displacement of 3
(128 in the code) already forces a resize. `UintMax = 31` makes the product of the
token bucket overflow for a rate of 3 or 7. QPACK integers of 20 bits have every length
of prefix and three bytes after it, and the texts of `MCComponents` have the
shortest and the longest Huffman codes. `stream_rx` cuts its streams at every
unit and parks each section; what a cut inside a number or a string does is in
`components`.

`CHECK_DEADLOCK FALSE` is set for QPACK, `Sched`, `Shutdown`, `Reception` and
`MCComponents`: with all sections sent and all acknowledgments read, after an
error, with all streams closed, or at the end of the bytes, the system really
stops. The runs of `StreamTx` check for deadlock, but
`Unblock` is always possible there, so that its liveness is what
`stream_tx_live` shows.

`MaxLag` is not a bound but an assumption on the network: how far the decoder
may be behind when a section is encoded. It is out of the way (100) except in
`qpack_lifecycle`, where 2 keeps the case of `unacked_eviction` away from the question the run asks;
the theorems that need it say so (`Compatible`, section 4).

**Fairness.** `FairSpec` assumes that a call once begun ends, that QUIC
delivers every stream (`ReadEncoderStream`, `ReadDecoderStream`,
`ReadRequestStream` of each stream separately), and that the application
writes the decoder stream when there is something on it, which is how
`nghttp3_conn_writev_stream` is meant to be called. All of it is weak
fairness. Nothing makes the application submit anything. `Resume` is the rest
of a call under way.

`FairSpec` of `StreamTx` assumes that the application keeps writing what is
scheduled and that QUIC in the end accepts an offer (in part), unblocks a stream
it blocked, and acknowledges what it accepted; the application resumes a stream
whose reader would block. The reader may return data without end only
`MaxReads` times, after which it ends the body. `FairSpec` of `Sched` assumes
the same of writing, answering, unblocking and resuming; an application that
takes -1 from `nghttp3_conn_writev_stream` for the end of its work, until
something happens on that stream, does not meet it: the call returns -1 also
when the reader of the stream on top would block while others could send.

`FairSpec` of `Shutdown` assumes that QUIC delivers the first data of each stream,
PRIORITY_UPDATE and GOAWAY frames, that the application writes the control stream
while the library has something on it, and that it closes the streams it was given
data of. Nothing makes it call `nghttp3_conn_shutdown`, and nothing makes the client
do anything. `EventuallyDrained` excepts a stream that no application can close
(see section 6).

Every property has at least one mutant, a plausible mistake (`..._Bug`) in a
definition of the model that makes TLC find a violation under the same bounds.

## 4. Proofs

Each proof module states an inductive invariant `IInv` (`RateInv` for the token
bucket), proves that `Init` establishes it and that every action keeps it, one lemma
per action, and derives the properties from it. TLC checked every `IInv` on the
instance of its run before it was proved. The invariants of `QpackProofs`
quantify over logs and histories, which TLC cannot enumerate: of those TLC checked what
they imply. The theorems hold for every value of the constants that the module's `ASSUME` allows: types, finitely many streams, and what is
named below. TLC evaluates those assumptions in the runs.

| Module | Theorem | Statement |
|---|---|---|
| `QpackTableProofs` | `TableAddTable` | an entry that fits gives a table, one longer, within the capacity, that lost no more than necessary |
| `QpackEncoderProofs` | `EncoderTypeOK`, `EncoderKnownReceivedSound`, `EncoderStreamLimit` | `Spec => []P` for each |
| | `EncoderEvictsOnlyUnreferenced` | `Spec => []ReferencedEntriesLive` |
| | `EncoderUnblockedSectionSafe` | `Spec => []UnblockedSectionSafe` |
| | `EncoderOverCapacityOnlyWhilePinned` | `Spec => []OverCapacityOnlyWhilePinned` |
| | `EncoderInsertFits` | `Spec => InsertFits` |
| | `EncoderBlockedStreamsExact` | `Spec => []BlockedStreamsExact` |
| | `EncoderBlockedLimitRespected` | `Spec => BlockedLimitRespected` |
| `QpackDecoderProofs` | `DecoderParkedStreamsMustWait` | `Spec => []ParkedStreamsMustWait` |
| | `DecoderReadingImpliesReceived` | `Spec => []ReadingImpliesReceived` |
| | `DecoderBufferReadFirst` | `Spec => []BufferReadFirst` |
| | `DecoderBounded` | the sizes of the decoder's table, capacity and buffer |
| `QpackProofs` | `QpackTablesAgree` | `Spec => []TablesAgree` |
| | `QpackDecoderKeepsReferenced` | `Spec => []DecoderKeepsReferenced` |
| | `QpackDecoderNeverAhead` | `Spec => [](written <= dtab.next /\ dtab.next <= tab.next)` |
| | `QpackInstructionsAccepted` | `AskedWithin` gives `Spec => [](derr = "ENCODER_STREAM" => elen >= MaxEncoderLen)` |
| | `QpackSectionsDecodable` | `Compatible` gives `Spec => []SectionsDecodable` |
| | `QpackCountsOrdered` | `Compatible` gives `Spec => []CountsOrdered` |
| | `QpackAcknowledgmentsAccepted` | `Compatible` gives `Spec => []~ebad` |
| | `QpackParkedStreamsCounted` | `Compatible` gives `Spec => []ParkedStreamsCounted` |
| | `QpackDeliversHeaders` | `Compatible` gives `Spec => DeliversHeaders` |
| | `QpackFailsOnlyAtLimits` | `Compatible` and `AskedWithin` give `Spec => [](NoConnectionError \/ OverLimit)` |
| `StreamTxProofs` | `StreamOffsetsAgree` | `Spec => []OffsetsAgree` |
| | `WritableStreamsAreScheduled` | `Spec => []WritableIsScheduled` |
| | `EndIsSentOnce` | `Spec => []FinExactlyOnce` |
| | `StreamChunksLive` | `Spec => []ChunksLive` |
| | `RequestRefinesByteStream` | `Spec => RequestIsByteStream` |
| `SchedProofs` | `HeapsHoldTheirStreams` | `Spec => []HeapsAgree` |
| | `NoLostWakeup` | `Spec => []ReadyIsScheduled` |
| | `PriorityIsAsAsked` | `Spec => []PriorityAsAsked` |
| | `CyclesAreComparable` | `CyclesBound(k)` gives `Spec => []CyclesComparable` |
| `ShutdownProofs` | `GoawayExact` | `Spec => []GoawayIsExact` |
| | `ClosedStaysClosed` | `Spec => []GoneStaysGone` |
| | `NoIdError` | `Spec => [](failed # "H3_ID_ERROR")` |
| | `AssertionsHold` | `MaxShutdowns <= 1` gives `Spec => []NoFailure` |
| `RateLimitProofs` | `RateIsExact` | `RateSpec => []RateExact` |

`EncoderTypeOK`, `EncoderKnownReceivedSound` and `EncoderStreamLimit` are in no run,
because their proofs need nothing a run would add; nor are `DecoderBounded`, `NoIdError`,
`QpackDecoderNeverAhead`, `QpackInstructionsAccepted`, `QpackAcknowledgmentsAccepted`,
`QpackFailsOnlyAtLimits` and the theorems that state an inductive invariant.
`SectionsDecodable` is in the run `unacked_eviction`, which violates it where `Compatible`
does not hold.

### The encoder

Why the parts of `IInv` need each other:

* An insertion evicts only what `CanIndex` allows. `CanIndexKeepsPins` shows
  that the arithmetic on sums grants exactly an eviction point older than every
  pinned entry. That is true only if the table is within its capacity, or if
  the oldest entry is itself pinned, which is `OverCapacityOnlyWhilePinned`:
  over its capacity the table cannot satisfy the third test of
  `qpack_encoder_can_index`, because the oldest reference is its first entry.
* `OverCapacityOnlyWhilePinned` survives the announcement of a new capacity
  only because the capacity in force is the smallest one pending and the last
  one asked for is no smaller: `PendingCapacity`.
* `StreamLimit` needs `RoomForStream`: a section uses the table only while a
  stream may be added, and nothing else adds streams before it ends.

`BlockedInv` adds to it what `blocked_streams` is: `KeysOf(refs, krcnt)`, one key for
each stream whose largest count is not known to be received. A lemma says how that set
changes with one queue: a new section replaces its stream's key by a larger
one, an acknowledgment of the last section takes the key out, a larger known received
count removes a prefix. `LeaveToBlock` is the step in between:
while a section is being encoded that may block, either its stream blocks already or
fewer streams do than the limit, which is why ending it keeps the limit.

### The decoder

`IInv` has the types, the sizes, the three properties and `TokensInOrder`: what is
buffered for a stream continues what its section context has read. Without it a parked
stream could, when it is resumed, find the start of a section where lines
were due. `ParkedStreamsMustWait` is about the state between calls; inside
one, the loop of `nghttp3_conn_read_qpack_encoder` has resumed all smaller counts
already, which `ReadingImpliesReceived` and `BufferReadFirst` carry through the
callbacks that may shut a stream there.

### Both sides of QPACK

`QpackProofs` is about `Qpack`: `Spec` there joins the two sides by streams that are
delivered piece by piece at any time. Its steps are steps of the two models above
(`EncSetCapacity` to `DecWrite`), so what was proved of those is used and not
repeated. `ConnInv` has three parts.

* `Sides`: each side keeps its own invariant, and what is in flight has the right
  form. A request stream holds whole sections in order, so a token that arrives is
  one its section waits for (`NextIsExpected`); without that the decoder's
  invariant, which speaks of tokens that fit, could not be carried over.
* `Shared(L)`: there is one log `L` of all insertions, never changed once written, and each
  table is a window on it. That alone gives `TablesAgree`, and that the decoder's
  window starts no later than the encoder's gives `DecoderKeepsReferenced`. To keep it,
  an instruction must do at the decoder what the encoder did when it wrote it, with
  a table that has fewer entries at the new end, more at the old one, and
  perhaps another capacity. `Chain(L, h, Queue, f, n)` says what each instruction in
  flight will do: `h[k]` is the window and capacity before the k-th; an insertion adds
  the entry `L` has, at the next index, which its relative index or its
  text denotes there (`Denotes`), and evicts up to a point no later
  than where the encoder's table starts (`Adds`). `ChainPush` appends an
  instruction, `ChainPop` reads one, `ChainAgree` extends the log, `ChainLater` lets the
  encoder evict, and `ChainCapacity` shows that announcing a capacity cuts the
  decoder's table, at the end of the chain, no later than the encoder's was.
* `Limits`: under `AskedWithin` (the application asks for no capacity above the
  decoder's SETTINGS), every capacity announced is one the decoder accepts. With
  `Chain`, no other instruction can fail: `QpackInstructionsAccepted`. What remains is the
  limit on what may arrive between two sections, which is a property of the
  traffic (`elen`).

That says what the tables hold. What the *sections* say is `DeliveryInv`, and needs
an assumption:

* `Compatible` has two parts. `MaxEntries` is the same at both ends: the encoder
  computes it from its own hard limit (`lib/nghttp3_qpack.c:2427`), the decoder from
  its own (`lib/nghttp3_qpack.c:3914`), and they wrap the Required Insert Count at
  different points otherwise. And `MaxLag <= MaxEntries`: when a section is begun
  the decoder is not so far behind that the section may go further ahead of it than
  one turn of the wrapped count can express (RFC 9204, 4.5.1.1). Nothing in the code
  ensures the second; the run `unacked_eviction` shows a section refused without it,
  and `qpack_lifecycle` is an instance that meets both.

`DeliveryInv` is `Standing`, about the variables alone, and four quantities that
make two more chains, each of steps `Brings(S, p, q, r)`: the items of `q` lead from
`p` to `r` by steps allowed in `S`.

* `Numbered(R, N)` numbers the sections of each stream that refer to the table,
  acknowledged or not; what the encoder keeps in `refs` are the last of them.
  `Settled(R, N, z)` is the chain on the decoder stream: `z` is how many sections of
  each stream the decoder has acknowledged, what it has announced and which streams
  it cancelled, and what is in flight or buffered leads there from something the
  encoder knows no more than (`Knows`). Each acknowledgment in it is the next one of
  its stream and comes after the insertions it proves (`Settles`), which gives
  `QpackCountsOrdered` and `QpackAcknowledgmentsAccepted`.
* `Told(R, N, z, W)` is the chain on each request stream that is not closed: what is
  buffered and in flight leads the reader from where it is in section and fields
  (`Here`) to everything submitted (`There`). Each token does one of three things
  (`Reads`): it gives the encoded Required Insert Count of the next section in `R`,
  its base, or a line that `Says` the next field, where `W` is the field each
  insertion was made of (`Content`). `Telling` says it of the lines of the section
  under construction.
* `Counts`, `InReach` and `Spaced` make the Required Insert Count survive: a section
  is at most `MaxEntries` ahead of the decoder, while the decoder has at most
  `MaxEntries` entries, as each takes 32 bytes, so that of the values with the same
  remainder modulo `2 * MaxEntries` `ReconstructRicnt` finds the right one
  (`RicntIsRead`). That the entries referred to are still there is
  `DecoderKeepsReferenced`, and that they hold the right fields is `Shared`.
* `Placed`, `Parked` and `WithinLimit` are about parking: the section being read is
  the first one unacknowledged, so that a parked stream has a count above what the
  encoder knows and counts as blocked there (`ParkedIsBlocked`). As those are within
  the limit (`BlockedInv` of the encoder), there is room to park (`RoomToPark`),
  which is the last way a section could be refused.

With it every step of `Qpack` is a step of `HeaderDelivery` or leaves `want` and
`got` alone (`Tells`): a field is appended to `got[s]` only if it is the next of
`want[s]`. `QpackFailsOnlyAtLimits` joins the theorems. `OverLimit` names the three
limits that remain: on the encoder stream between two sections (`elen`), on the
decoder stream between two sections (`declen`) and on what the decoder buffers
(`dbuf`). How much arrives between two sections is up to the traffic, so that
`NoConnectionError` itself, without the second disjunct, holds for the bounds of a
run only.

`QpackAssumption` is what the parts assume, plus that streams to be closed are streams. The
encoder also assumes that a static table is about names and values in use, and that
`NoSection` is not a section (`NoSectionAssumption`).

### The write side of a stream

Sums over a queue (`HeldUpTo`, `LenUpTo`) are recursive functions on the positions of the
queue. The prover gets their equations from the lemma `Recursion`, and from these how a sum
changes when a buffer is appended, merged into its predecessor, cut or taken out.

* `TxInv` says that the offset acknowledged, the bytes accepted, those unsent and the bytes
  of the queue are one line: `ackBase <= ackOff <= accepted`, `accepted + unsent` is all
  that was ever written, `idx` (`outq_idx`) is the first buffer not fully accepted.
* `OfferInv` says that what is on offer is still there, whatever was submitted in
  between, and that an offer with the end has everything that is left.
* `FrameInv`, `SchedInv` and `FinInv` belong together: the end is offered only when
  nothing is queued, so the frame behind it must not be one that adds nothing (a DATA
  frame whose reader has no data), and a stream that ended stays schedulable until
  QUIC takes the end.
* `ReportInv` says that what acknowledgments reported is the application's part of what they
  covered. It is what the refinement needs: each step of `StreamTx` is shown to be
  a step of `ByteStream` or to leave its variables alone.
* `ChunksInv` is about memory and is added for `ChunksLive`. Chunks are numbered
  without gaps, buffers lie in them in order and without overlap (`Lie`), and the last one in a
  chunk ends where the chunk does. An acknowledgment deletes buffers and
  chunks one after the other; `Parted` says of the point it has reached that the chunks
  freed are those whose last buffer was deleted.

### The scheduler

`IInv` (`OfferHeld` and `StreamInv` of each stream) gives the first three theorems.
Cycles need `CyclesInv(k)`: the streams of a heap lie within two turns of some point, the
one on offer within one, and no stream holds more than `k` units. `CyclesBound(k)` is
the assumption: the data reader never leaves a stream with more than `k` units, and
twice the turn that `k` units cost is no more than `NGHTTP3_TNODE_MAX_CYCLE_GAP`. In
the code a turn of 800 bytes costs one and the gap is 2^24, so that several gigabytes would
have to be supplied by one call of the reader to break it. The run `sched` is
tighter than the theorem: with a gap of 1 and turns of 1 its two streams stay comparable
although `CyclesBound` asks for a gap of 2.

### GOAWAY

`GoawayIsExact` needs to know which streams can still arrive. `IInv` says that the client
opened streams in order and below its limit (`RequestedInOrder`), that what is
in the channels or known to the server was requested (`StreamsRequested`), that
every stream handed over or rejected is marked as opened (`ArrivedAreOpened`), that the
identifiers in the control channel and at its ends descend (`GoawaysDescend`)
and on which side of them the streams are (`GoawayDivides`). `AssertionsHold` is for
one call of `nghttp3_conn_shutdown`: a second one may fail its assertion (section 6).

### The token bucket

`RateIsExact` says that for any width of
integers, ticks per second, burst, rate and timestamps, the bucket of
`lib/nghttp3_ratelim.c` holds to the fraction what an ideal bucket holds, and
refuses exactly when that one has no whole token. `RateExact` is not inductive
by itself. `RateInv` adds the types, that the carry is less than a second (so that
the division returns the tokens exactly) and `level <= burst * Seconds`: a full
bucket then has no carry, which is what makes it right to drop the carry when
the bucket is filled. The lemmas follow the code: `NoOverflow` shows that the test
`rate <= (UINT64_MAX - carry) / d` is exactly that the product fits, `UpdateIsExact`
that each of the three branches of `ratelim_update` keeps the ideal amount,
`DrainKeeps` that taking a token does. `RateAssumption` asks only that
the width holds a second and the timestamps; TLC evaluates it in `components`.

### Only model-checked

`NoConnectionError` without the limits, as said above. Liveness, which is beyond the
prover. Whatever is computed by recursion over data: `Reception`, `Control`,
`Containers` and `Wire` use recursive operators, about which the prover can say
nothing, and what `FieldSection` compares is two computations over a sequence of
fields, which takes induction over it.

## 5. What is not modelled

* **Allocation failure**, in any model, and allocators and reference counts
  (`lib/nghttp3_balloc.c`, `_objalloc.c`, `_opl.c`, `_rcbuf.c`).
* **What callbacks return.** They succeed; a failing one ends the connection.
* **Glitches.** `ControlRx` and `BidiRx` leave out the drain that each suspicious
  frame makes; `RateLimit` has the bucket.
* **Contents of tables**: QPACK's static table, the characters allowed in names
  and values, and the parser of structured fields (an external library, taken for
  the members it returns).
* **The hash of `lib/nghttp3_map.c`**, which is any function of the key here.
* **Transmission of a client's request streams** apart from the server's, and the
  five streams of `nghttp3_conn_writev_stream` in one module: `StreamTx` has the
  encoder stream before a request stream, `Shutdown` the control stream, `Qpack`
  the decoder stream.
* Trailers without a field (see section 6), and an application that stops reading a
  stream while both sides of QPACK are joined (`QpackDecoder` and `Reception` have it).
* The 4096 bytes between two sections on the decoder stream are in the encoder's
  model and not reached with honest peers at these bounds.
* Error names, logging, versioned structures, the Rust bindings, examples and
  fuzzers, which have no state.

## 6. Where the code and its documentation disagree

1. **`unacked_eviction`.** The encoder protects entries that sections refer to,
   and nothing else. After a stream is cancelled, entries whose insertion was
   never acknowledged can be evicted. It then runs ahead of the decoder by more
   than the table holds, and a section's Required Insert Count is reconstructed
   wrongly or refused. RFC 9204, which the README claims, forbids the eviction
   (section 2.1.1).
2. **`shut_write_reopened`.** A stream whose write side is shut is scheduled
   again by a submission, `nghttp3_conn_unblock_stream` or
   `nghttp3_conn_resume_stream` while it has frames to serialise, and its bytes
   are offered. (The same holds for a stream blocked by flow control, where it
   costs one useless offer.)

Read in the code while modelling it, and not shown by a run:

* `nghttp3_qpack_encoder_set_max_dtable_capacity` drops a request for the
  capacity in force although another is pending, and the pending one wins.
* A parked stream that is shut for reading is cancelled towards the peer and
  goes on counting as blocked at home until it is resumed or closed.
* Trailers without a field add nothing to the output queue. With everything
  else written, the end of the stream is offered once; if QUIC does not take it
  then, nothing schedules the stream again. `FieldSizes` excludes them.
* The prefix of a section is encoded modulo the encoder's own hard limit
  (`lib/nghttp3_qpack.c:2427`), not the capacity the peer advertised, which the
  decoder uses. With different limits the two wrap the Required Insert Count at
  different points. The runs give both sides the same limit.
* FIN together with the type of a critical stream is not noticed: the call returns
  before it looks at FIN (`lib/nghttp3_conn.c:685`). `ControlSameAsWhole` allows it.
* FIN right after the prefix of a section that has to wait leaves nothing to buffer,
  and the truncated section is never reported (`CutAtPrefix` of `ReceptionProps`).
* The `fin` argument of `end_headers` and `end_trailers` depends on how the stream is
  cut. The code passes `p == end && fin` (`lib/nghttp3_conn.c:1747` and `1751`): when
  the FIN comes in a call of its own after the section was read, as QUIC may deliver
  it, the argument is 0, and only `end_stream` says that the stream ends. The
  documentation says "If the stream ends with this HTTP field section, |fin| is set to
  nonzero" (`nghttp3.h:2073`). `SameAsWhole` excepts that case, which `alone` of
  `Reception` records, and no other: with the last byte of the section, or while the
  stream is parked, the FIN makes it 1, and it is 0 for any other section.
* A second call of `nghttp3_conn_shutdown` after more streams were accepted would
  name a larger identifier and fail its assertion; the documentation does not say that
  it may be called twice. `MaxShutdowns` is 1.
* A PRIORITY_UPDATE that arrives after QUIC is done with its stream, of which the
  library never had any data, creates a stream that nothing will close, and
  `nghttp3_conn_is_drained` stays false (`Orphan` of `ShutdownProps`).
* Bytes of a GOAWAY or MAX_PUSH_ID frame after its integer are read as a new frame;
  a setting sent twice is noticed only if its first value was not 0; trailers
  without a field make no callback; a parked stream that was shut for reading is
  cancelled a second time when it is closed.
* `nghttp3_ksl_update_key` accepts any key between the neighbours, but a key smaller
  than before could fall behind a separator that was not lowered; the library only lets keys
  grow at their lower end or shrink at their upper one.

## 7. Plan

What the library does with a connection is modelled. What is left to add:

1. `StreamTx` and `Sched` joined with the control and decoder streams, if
   their states can be kept apart.
2. Allocation failure, where the code promises to survive it.

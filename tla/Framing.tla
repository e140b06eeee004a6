------------------------------ MODULE Framing -------------------------------
(***************************************************************************)
(* The framing of messages on a connection (network/conn.go).  A message   *)
(* is preceded by a header with its length.  Each end has one buffer: the  *)
(* header to be written is put into its beginning, a header that is read   *)
(* is read into it, and so is the payload that follows, which is parsed    *)
(* from there.  The server reads a request and writes the response.  The   *)
(* client does likewise on the connections of the broadcaster; on those of *)
(* the connection cache it has a goroutine that only reads, while others   *)
(* write through the same buffer.                                          *)
(***************************************************************************)
EXTENDS Naturals, Sequences

CONSTANTS
    Sizes,          \* the lengths of the requests, in order; a response is one unit long
    Limit           \* maxPayload

Ends  == {"client", "server"}
Other == [e \in Ends |-> IF e = "client" THEN "server" ELSE "client"]

ASSUME FramingAssumption == Sizes \in Seq(Nat) /\ Limit \in Nat

\* What is in the buffer and in the stream: a header, or a unit of a payload.
Header(n)  == <<"header", n, 0>>
Unit(m, i) == <<"unit", m, i>>
Size(e, m) == IF e = "client" THEN Sizes[m] ELSE 1
Frame(e, m) == [i \in 1..Size(e, m) |-> Unit(m, i)]

VARIABLES
    ownReader,      \* whether the client reads in a goroutine of its own, as a cache does
    open,           \* the connection
    buf,            \* the first bytes of the buffer of each end
    stream,         \* what each end has written and the other has not read
    writing,        \* the number of the message each end writes, or wrote last
    wpc,            \* "idle", "put" (the header is in the buffer) or "payload"
    wleft,          \* what is left to write of the payload
    reading,        \* "header", "size" or "payload"
    rsize,          \* the size of the payload
    rleft,          \* how much is left to read of it
    rgot,           \* its units, except the first, which is in the buffer
    received,       \* the messages each end has read and parsed
    overlap         \* whether a header was in a buffer along with what was read

framingVars ==
    <<ownReader, open, buf, stream, writing, wpc, wleft, reading, rsize, rleft, rgot, received, overlap>>

FramingInit ==
    /\ ownReader \in BOOLEAN /\ open = TRUE /\ overlap = FALSE
    /\ buf = [e \in Ends |-> Header(0)]
    /\ stream = [e \in Ends |-> <<>>]
    /\ writing = [e \in Ends |-> 0] /\ wpc = [e \in Ends |-> "idle"] /\ wleft = [e \in Ends |-> <<>>]
    /\ reading = [e \in Ends |-> "header"] /\ rgot = [e \in Ends |-> <<>>]
    /\ rsize = [e \in Ends |-> 0] /\ rleft = [e \in Ends |-> 0]
    /\ received = [e \in Ends |-> <<>>]

-----------------------------------------------------------------------------

\* The client writes the next request when it has the response to the last one, unless
\* it has a reader; the server writes a response to each request it has read.
MayWrite(e) ==
    /\ wpc[e] = "idle"
    /\ IF e = "server" THEN writing[e] < Len(received[e])
       ELSE writing[e] < Len(Sizes) /\ (ownReader \/ writing[e] = Len(received[e]))

\* It reads only in its turn, unless it has a reader.
MayRead(e) ==
    \/ e = "client" /\ ownReader
    \/ wpc[e] = "idle" /\ ~MayWrite(e)

\* WritePayload: the size is checked and put into the buffer;
putHeader(e) ==
    /\ open /\ MayWrite(e)
    /\ writing' = [writing EXCEPT ![e] = @ + 1]
    /\ IF Size(e, writing'[e]) > Limit
       THEN /\ open' = FALSE
            /\ UNCHANGED <<buf, wpc>>
       ELSE /\ buf' = [buf EXCEPT ![e] = Header(Size(e, writing'[e]))]
            /\ wpc' = [wpc EXCEPT ![e] = "put"]
            /\ UNCHANGED open
    /\ UNCHANGED <<stream, wleft, reading, rsize, rleft, rgot, received>>

\* the header is written from there;
writeHeader(e) ==
    /\ open /\ wpc[e] = "put"
    /\ stream' = [stream EXCEPT ![e] = Append(@, buf[e])]
    /\ wleft' = [wleft EXCEPT ![e] = Frame(e, writing[e])]
    /\ wpc' = [wpc EXCEPT ![e] = IF wleft'[e] = <<>> THEN "idle" ELSE "payload"]
    /\ UNCHANGED <<open, buf, writing, reading, rsize, rleft, rgot, received>>

\* and then the payload, in as many writes as it takes.
writeSome(e) ==
    /\ open /\ wpc[e] = "payload"
    /\ \E n \in 1..Len(wleft[e]) :
          /\ stream' = [stream EXCEPT ![e] = @ \o SubSeq(wleft[e], 1, n)]
          /\ wleft' = [wleft EXCEPT ![e] = SubSeq(@, n + 1, Len(@))]
    /\ wpc' = [wpc EXCEPT ![e] = IF wleft'[e] = <<>> THEN "idle" ELSE "payload"]
    /\ UNCHANGED <<open, buf, writing, reading, rsize, rleft, rgot, received>>

-----------------------------------------------------------------------------

\* readPayload: the header is read into the buffer;
readHeader(e) ==
    /\ open /\ MayRead(e) /\ reading[e] = "header" /\ stream[Other[e]] # <<>>
    /\ buf' = [buf EXCEPT ![e] = Head(stream[Other[e]])]
    /\ stream' = [stream EXCEPT ![Other[e]] = Tail(@)]
    /\ reading' = [reading EXCEPT ![e] = "size"]
    /\ UNCHANGED <<open, writing, wpc, wleft, rsize, rleft, rgot, received>>

\* the size is taken from it, and is too large if these are not the bytes of a header;
readSize(e) ==
    /\ open /\ reading[e] = "size"
    /\ IF buf[e][1] # "header" \/ buf[e][2] > Limit
       THEN open' = FALSE /\ UNCHANGED <<reading, rsize, rleft>>
       ELSE /\ rsize' = [rsize EXCEPT ![e] = buf[e][2]]
            /\ rleft' = [rleft EXCEPT ![e] = buf[e][2]]
            /\ reading' = [reading EXCEPT ![e] = "payload"]
            /\ UNCHANGED open
    /\ rgot' = [rgot EXCEPT ![e] = <<>>]
    /\ UNCHANGED <<buf, stream, writing, wpc, wleft, received>>

\* A faulty variant: what is read is put at the beginning of the buffer each time.
readSomeAgain(e) ==
    /\ open /\ reading[e] = "payload" /\ rleft[e] > 0 /\ stream[Other[e]] # <<>>
    /\ rleft' = [rleft EXCEPT ![e] = @ - 1]
    /\ buf' = [buf EXCEPT ![e] = Head(stream[Other[e]])]
    /\ stream' = [stream EXCEPT ![Other[e]] = Tail(@)]
    /\ UNCHANGED <<open, writing, wpc, wleft, reading, rsize, rgot, received>>

\* the payload is read into the same buffer, as it comes;
readSome(e) ==
    /\ open /\ reading[e] = "payload" /\ rleft[e] > 0 /\ stream[Other[e]] # <<>>
    /\ IF rleft[e] = rsize[e]
       THEN buf' = [buf EXCEPT ![e] = Head(stream[Other[e]])] /\ UNCHANGED rgot
       ELSE rgot' = [rgot EXCEPT ![e] = Append(@, Head(stream[Other[e]]))] /\ UNCHANGED buf
    /\ rleft' = [rleft EXCEPT ![e] = @ - 1]
    /\ stream' = [stream EXCEPT ![Other[e]] = Tail(@)]
    /\ UNCHANGED <<open, writing, wpc, wleft, reading, rsize, received>>

\* and ReadMessage parses what is in it.
parse(e) ==
    /\ open /\ reading[e] = "payload" /\ rleft[e] = 0
    /\ received' = [received EXCEPT ![e] = Append(@, IF rsize[e] = 0 THEN <<>> ELSE <<buf[e]>> \o rgot[e])]
    /\ reading' = [reading EXCEPT ![e] = "header"]
    /\ UNCHANGED <<open, buf, stream, writing, wpc, wleft, rsize, rleft, rgot>>

\* A read or a write that times out or fails closes the connection.
timeout(e) ==
    /\ open
    /\ reading[e] = "payload" \/ MayRead(e) \/ wpc[e] # "idle"
    /\ open' = FALSE
    /\ UNCHANGED <<buf, stream, writing, wpc, wleft, reading, rsize, rleft, rgot, received>>

Step(e) == putHeader(e) \/ writeHeader(e) \/ writeSome(e) \/ readHeader(e) \/ readSize(e) \/ readSome(e) \/ parse(e)

\* An end has put a header into its buffer and not written it, and has read something into the
\* same buffer and not parsed it.
Shared == \E e \in Ends : wpc[e] = "put" /\ reading[e] # "header"

FramingNext ==
    /\ \E e \in Ends : Step(e) \/ timeout(e)
    /\ overlap' = (overlap \/ Shared')
    /\ UNCHANGED ownReader

FramingSpec == FramingInit /\ [][FramingNext]_framingVars

-----------------------------------------------------------------------------
(* Properties.                                                             *)

\* What an end has read is what the other has written, in the same order and unchanged.
Unchanged ==
    \A e \in Ends :
       /\ Len(received[e]) <= writing[Other[e]]
       /\ \A k \in DOMAIN received[e] : received[e][k] = Frame(Other[e], k)

\* Where an end writes and reads in turn, the two never meet in its buffer; and as long as they
\* have not met there, messages arrive unchanged, however the payload was split, and also after
\* a timeout.  Nothing keeps the reader of a connection cache from meeting a writer
\* (readPayload and WritePayload of network/conn.go, dial of internal/conns/cache.go).
Intact == (~ownReader => ~overlap) /\ (~overlap => Unchanged)

=============================================================================

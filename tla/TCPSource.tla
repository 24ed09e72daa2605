----------------------------- MODULE TCPSource -----------------------------
(***************************************************************************)
(* The TCP source plugin (nes-plugins/Sources/TCPSource/TCPSource.cpp) as  *)
(* seen by one source thread, together with the remote peers it talks to.  *)
(*                                                                         *)
(* The source thread runs open(), then fillTupleBuffer() once per          *)
(* TupleBuffer, then close().  fillTupleBuffer loops over fillBuffer(),    *)
(* whose inner loop issues blocking read() calls until the buffer is full, *)
(* the flush interval has passed, or a read ends the loop.  In "server"    *)
(* mode the source listens and accepts one client at a time, and accepts   *)
(* the next client when the current one reaches end of file.              *)
(*                                                                         *)
(* Bytes are abstracted to identities <<peer, i>> (the i-th byte that      *)
(* peer sent), so that loss, duplication and mixing can be observed.       *)
(* Socket options, address resolution, endpoint formatting, logging and    *)
(* the statistics counters printed by toString() are left out: no          *)
(* control decision depends on them.                                       *)
(***************************************************************************)
EXTENDS Naturals, Sequences, SequencesExt, FiniteSets

CONSTANTS
  Modes,         \* the configured ConfigParametersTCP::MODE values
  Peers,         \* addresses the client resolves, or the remote clients
  NoFd,          \* model value: sockfd = -1
  BufferSize,    \* tupleBuffer.getBufferSize() in bytes
  MaxBytes,      \* bytes each peer sends at most
  FlushEnabled,  \* flushIntervalInMs > 0
  ReadTimeouts,  \* SO_RCVTIMEO may expire while the peer is silent
  SocketErrors,  \* connect(), listen() and accept() may fail
  NoSocket       \* socket() may fail for every resolved address

ASSUME Modes \subseteq {"client", "server"} /\ Modes # {}
ASSUME BufferSize \in Nat \ {0} /\ MaxBytes \in Nat \ {0}
ASSUME NoFd \notin Peers
ASSUME {FlushEnabled, ReadTimeouts, SocketErrors, NoSocket} \subseteq BOOLEAN

VARIABLES
  mode,                 \* TCPSource::mode, fixed by the configuration
  pc,                   \* control point of the source thread
  resume,               \* where awaitClientConnection returns to
  sockfd,               \* peer of the connected socket, or NoFd
  listenfd,             \* listenfd >= 0
  tupleBuffer,          \* bytes in the current buffer: numReceivedBytes = Len
  readWasValid,         \* local of fillBuffer
  flushIntervalPassed,  \* local of fillBuffer
  flushDue,             \* flushIntervalInMs elapsed since the timer start
  stopRequested,        \* the stop_token passed to fillTupleBuffer
  conn,                 \* [Peers -> {"none", "open"}]: peer has connected
  sent,                 \* [Peers -> Nat]: bytes the peer has written
  consumed,             \* [Peers -> Nat]: bytes of the peer read by read()
  fin,                  \* [Peers -> BOOLEAN]: the peer closed its end
  backlog,              \* connections completed but not yet accepted
  received,             \* history: every byte read() returned, in order
  delivered             \* history: the buffers fillTupleBuffer returned

vars == <<mode, pc, resume, sockfd, listenfd, tupleBuffer, readWasValid,
          flushIntervalPassed, flushDue, stopRequested, conn, sent, consumed,
          fin, backlog, received, delivered>>
peerVars == <<conn, sent, fin>>

Byte == Peers \X (1..MaxBytes)
PcValues == {"init", "accept", "ready", "reading", "return", "eos",
             "closed", "failed"}

\* Bytes of peer p that are in the socket's receive queue.
Avail(p) == sent[p] - consumed[p]

-----------------------------------------------------------------------------
(* Steps of the source thread.                                             *)

\* openClientConnection() with tryToConnect(): the connect either succeeds
\* and sockfd holds the connection, or fails, every descriptor is closed
\* and CannotOpenSource propagates out of the caller.  When socket() fails
\* for every address, tryToConnect returns false, which the caller
\* ignores: it carries on as if connected, with sockfd = -1.
TryToConnect(p, next) ==
  \/ /\ sockfd' = p
     /\ conn' = [conn EXCEPT ![p] = "open"]
     /\ pc' = next
  \/ /\ SocketErrors
     /\ sockfd' = NoFd
     /\ pc' = "failed"
     /\ UNCHANGED conn
  \/ /\ NoSocket
     /\ sockfd' = NoFd
     /\ pc' = next
     /\ UNCHANGED conn

\* Head of fillBuffer: reconnect when sockfd < 0, start the flush timer and
\* reset the loop flags.  numReceivedBytes (the buffer) is not reset here.
FillBufferEntry ==
  /\ readWasValid' = TRUE
  /\ flushIntervalPassed' = FALSE
  /\ flushDue' = FALSE
  /\ IF sockfd # NoFd
       THEN /\ pc' = "reading"
            /\ UNCHANGED <<resume, sockfd, conn>>
       ELSE IF mode = "server"
         THEN /\ pc' = "accept"
              /\ resume' = "reading"
              /\ UNCHANGED <<sockfd, conn>>
         ELSE /\ \E p \in Peers : TryToConnect(p, "reading")
              /\ UNCHANGED resume

-----------------------------------------------------------------------------
(* Fault-injection variants of the steps below, each a plausible slip in   *)
(* TCPSource.cpp; every property checked in a passing run is broken by     *)
(* one of them.                                                            *)

\* read() is passed rawTBSize instead of rawTBSize - numReceivedBytes.
ReadDataIgnoringSpace ==
  /\ pc = "reading" /\ ~flushIntervalPassed /\ Len(tupleBuffer) < BufferSize
  /\ sockfd # NoFd /\ Avail(sockfd) > 0
  /\ \E k \in 1..Avail(sockfd) :
       LET bytes == [i \in 1..k |-> <<sockfd, consumed[sockfd] + i>>]
       IN  /\ k <= BufferSize
           /\ tupleBuffer' = tupleBuffer \o bytes
           /\ received' = received \o bytes
           /\ consumed' = [consumed EXCEPT ![sockfd] = @ + k]
  /\ flushIntervalPassed' = flushDue
  /\ UNCHANGED <<mode, pc, resume, sockfd, listenfd, readWasValid, flushDue,
                 stopRequested, conn, sent, fin, backlog, delivered>>

\* read() writes at getBuffer() instead of getBuffer() + numReceivedBytes.
ReadDataAtBufferStart ==
  /\ pc = "reading" /\ ~flushIntervalPassed /\ Len(tupleBuffer) < BufferSize
  /\ sockfd # NoFd /\ Avail(sockfd) > 0
  /\ \E k \in 1..Avail(sockfd) :
       LET bytes == [i \in 1..k |-> <<sockfd, consumed[sockfd] + i>>]
       IN  /\ k <= BufferSize - Len(tupleBuffer)
           /\ tupleBuffer' = bytes \o SubSeq(tupleBuffer, k + 1, Len(tupleBuffer))
           /\ received' = received \o bytes
           /\ consumed' = [consumed EXCEPT ![sockfd] = @ + k]
  /\ flushIntervalPassed' = flushDue
  /\ UNCHANGED <<mode, pc, resume, sockfd, listenfd, readWasValid, flushDue,
                 stopRequested, conn, sent, fin, backlog, delivered>>

\* End of file in server mode accepts the next client without checking
\* numReceivedBytes == 0.
ReadEofAlwaysReconnect ==
  /\ pc = "reading" /\ ~flushIntervalPassed /\ Len(tupleBuffer) < BufferSize
  /\ sockfd # NoFd /\ Avail(sockfd) = 0 /\ fin[sockfd]
  /\ IF tupleBuffer = <<>> \/ mode = "server"
       THEN /\ readWasValid' = FALSE
            /\ IF mode = "server"
                 THEN /\ sockfd' = NoFd
                      /\ pc' = "accept"
                      /\ resume' = "reading"
                 ELSE /\ pc' = "return"
                      /\ UNCHANGED <<sockfd, resume>>
            /\ UNCHANGED flushIntervalPassed
       ELSE /\ flushIntervalPassed' = flushDue
            /\ UNCHANGED <<pc, resume, sockfd, readWasValid>>
  /\ UNCHANGED <<mode, listenfd, tupleBuffer, flushDue, stopRequested, conn, sent,
                 consumed, fin, backlog, received, delivered>>

\* The flush-interval check is only made after reads that returned data.
ReadEofSkippingFlushCheck ==
  /\ pc = "reading" /\ ~flushIntervalPassed /\ Len(tupleBuffer) < BufferSize
  /\ sockfd # NoFd /\ Avail(sockfd) = 0 /\ fin[sockfd]
  /\ IF tupleBuffer = <<>>
       THEN /\ readWasValid' = FALSE
            /\ IF mode = "server"
                 THEN /\ sockfd' = NoFd
                      /\ pc' = "accept"
                      /\ resume' = "reading"
                 ELSE /\ pc' = "return"
                      /\ UNCHANGED <<sockfd, resume>>
            /\ UNCHANGED flushIntervalPassed
       ELSE UNCHANGED <<pc, resume, sockfd, readWasValid, flushIntervalPassed>>
  /\ UNCHANGED <<mode, listenfd, tupleBuffer, flushDue, stopRequested, conn, sent,
                 consumed, fin, backlog, received, delivered>>

\* End of file ends the stream in both modes (no accept of the next client).
ReadEofWithoutServerMode ==
  /\ pc = "reading" /\ ~flushIntervalPassed /\ Len(tupleBuffer) < BufferSize
  /\ sockfd # NoFd /\ Avail(sockfd) = 0 /\ fin[sockfd]
  /\ IF tupleBuffer = <<>>
       THEN /\ readWasValid' = FALSE
            /\ pc' = "return"
            /\ UNCHANGED <<sockfd, resume, flushIntervalPassed>>
       ELSE /\ flushIntervalPassed' = flushDue
            /\ UNCHANGED <<pc, resume, sockfd, readWasValid>>
  /\ UNCHANGED <<mode, listenfd, tupleBuffer, flushDue, stopRequested, conn, sent,
                 consumed, fin, backlog, received, delivered>>

\* fillTupleBuffer reuses the caller's numReceivedBytes instead of 0.
FillTupleBufferKeepingBytes ==
  /\ pc = "ready" /\ ~stopRequested
  /\ FillBufferEntry
  /\ UNCHANGED <<mode, listenfd, tupleBuffer, stopRequested, sent, consumed, fin,
                 backlog, received, delivered>>

-----------------------------------------------------------------------------
\* open() in client mode: openClientConnection() with tryToConnect().
OpenClientConnection ==
  /\ pc = "init" /\ mode = "client"
  /\ \E p \in Peers : TryToConnect(p, "ready")
  /\ UNCHANGED <<mode, resume, listenfd, tupleBuffer, readWasValid,
                 flushIntervalPassed, flushDue, stopRequested, sent,
                 consumed, fin, backlog, received, delivered>>

\* open() in server mode: setupServerListener(), then awaitClientConnection.
SetupServerListener ==
  /\ pc = "init" /\ mode = "server"
  /\ sockfd' = NoFd
  /\ \/ /\ listenfd' = TRUE
        /\ pc' = "accept"
        /\ resume' = "ready"
     \/ /\ SocketErrors
        /\ listenfd' = FALSE
        /\ pc' = "failed"
        /\ UNCHANGED resume
  /\ UNCHANGED <<mode, tupleBuffer, readWasValid, flushIntervalPassed, flushDue,
                 stopRequested, conn, sent, consumed, fin, backlog, received,
                 delivered>>

\* awaitClientConnection(): accept() blocks until a connection is queued;
\* an error other than EINTR closes the listener and throws.
AwaitClientConnection ==
  /\ pc = "accept"
  /\ \/ /\ ~listenfd
        /\ pc' = "failed"
        /\ UNCHANGED <<listenfd, sockfd, backlog, readWasValid>>
     \/ /\ listenfd /\ backlog # <<>>
        /\ sockfd' = Head(backlog)
        /\ backlog' = Tail(backlog)
        /\ readWasValid' = TRUE
        /\ pc' = resume
        /\ UNCHANGED listenfd
     \/ /\ listenfd /\ SocketErrors
        /\ listenfd' = FALSE
        /\ pc' = "failed"
        /\ UNCHANGED <<sockfd, backlog, readWasValid>>
  /\ UNCHANGED <<mode, resume, tupleBuffer, flushIntervalPassed, flushDue,
                 stopRequested, conn, sent, consumed, fin, received,
                 delivered>>

\* fillTupleBuffer(): numReceivedBytes = 0, then the first fillBuffer().
FillTupleBuffer ==
  /\ pc = "ready" /\ ~stopRequested
  /\ tupleBuffer' = <<>>
  /\ FillBufferEntry
  /\ UNCHANGED <<mode, listenfd, stopRequested, sent, consumed, fin, backlog,
                 received, delivered>>

\* One read() that returns data, followed by the flush-interval check.
ReadData ==
  /\ pc = "reading" /\ ~flushIntervalPassed /\ Len(tupleBuffer) < BufferSize
  /\ sockfd # NoFd /\ Avail(sockfd) > 0
  /\ \E k \in 1..Avail(sockfd) :
       LET space == BufferSize - Len(tupleBuffer)
           bytes == [i \in 1..k |-> <<sockfd, consumed[sockfd] + i>>]
       IN  /\ k <= space
           /\ tupleBuffer' = tupleBuffer \o bytes
           /\ received' = received \o bytes
           /\ consumed' = [consumed EXCEPT ![sockfd] = @ + k]
  /\ flushIntervalPassed' = flushDue
  /\ UNCHANGED <<mode, pc, resume, sockfd, listenfd, readWasValid, flushDue,
                 stopRequested, conn, sent, fin, backlog, delivered>>

\* read() returns 0: the peer closed.  With an empty buffer this is end of
\* stream: the client-mode source stops, the server-mode source drops the
\* client and accepts the next one.  With bytes in the buffer the loop
\* goes on to the flush check and reads again.
ReadEof ==
  /\ pc = "reading" /\ ~flushIntervalPassed /\ Len(tupleBuffer) < BufferSize
  /\ sockfd # NoFd /\ Avail(sockfd) = 0 /\ fin[sockfd]
  /\ IF tupleBuffer = <<>>
       THEN /\ readWasValid' = FALSE
            /\ IF mode = "server"
                 THEN /\ sockfd' = NoFd
                      /\ pc' = "accept"
                      /\ resume' = "reading"
                 ELSE /\ pc' = "return"
                      /\ UNCHANGED <<sockfd, resume>>
            /\ UNCHANGED flushIntervalPassed
       ELSE /\ flushIntervalPassed' = flushDue
            /\ UNCHANGED <<pc, resume, sockfd, readWasValid>>
  /\ UNCHANGED <<mode, listenfd, tupleBuffer, flushDue, stopRequested, conn, sent,
                 consumed, fin, backlog, received, delivered>>

\* read() returns -1 (EBADF on sockfd = -1, or SO_RCVTIMEO expired on a
\* silent peer): the loop stops and numReceivedBytes is set to 0.
ReadError ==
  /\ pc = "reading" /\ ~flushIntervalPassed /\ Len(tupleBuffer) < BufferSize
  /\ \/ sockfd = NoFd
     \/ sockfd # NoFd /\ ReadTimeouts /\ Avail(sockfd) = 0 /\ ~fin[sockfd]
  /\ readWasValid' = FALSE
  /\ tupleBuffer' = <<>>
  /\ pc' = "return"
  /\ UNCHANGED <<mode, resume, sockfd, listenfd, flushIntervalPassed, flushDue,
                 stopRequested, conn, sent, consumed, fin, backlog, received,
                 delivered>>

\* The inner loop has ended; fillBuffer returns and fillTupleBuffer either
\* calls it again (nothing received, read still valid) or returns
\* numReceivedBytes, where 0 signals end of stream.
FillBufferReturn ==
  /\ \/ pc = "return"
     \/ pc = "reading" /\ (flushIntervalPassed \/ Len(tupleBuffer) >= BufferSize)
  /\ IF tupleBuffer = <<>> /\ readWasValid
       THEN /\ FillBufferEntry
            /\ UNCHANGED delivered
       ELSE /\ delivered' = Append(delivered, tupleBuffer)
            /\ pc' = IF tupleBuffer = <<>> THEN "eos" ELSE "ready"
            /\ UNCHANGED <<resume, sockfd, conn, readWasValid,
                           flushIntervalPassed, flushDue>>
  /\ UNCHANGED <<mode, listenfd, tupleBuffer, stopRequested, sent, consumed, fin,
                 backlog, received>>

\* close(): closes the connection and the listening socket.  The source
\* thread calls it after end of stream or when a stop was requested.
Close ==
  /\ \/ pc = "eos"
     \/ pc = "ready" /\ stopRequested
  /\ sockfd' = NoFd
  /\ listenfd' = FALSE
  /\ pc' = "closed"
  /\ UNCHANGED <<mode, resume, tupleBuffer, readWasValid, flushIntervalPassed,
                 flushDue, stopRequested, conn, sent, consumed, fin, backlog,
                 received, delivered>>

-----------------------------------------------------------------------------
(* Steps of the environment: time, the query engine and the peers.         *)

\* The flush interval elapses while fillBuffer is reading.
FlushTimerExpires ==
  /\ FlushEnabled /\ pc = "reading" /\ ~flushDue
  /\ flushDue' = TRUE
  /\ UNCHANGED <<mode, pc, resume, sockfd, listenfd, tupleBuffer, readWasValid,
                 flushIntervalPassed, stopRequested, conn, sent, consumed,
                 fin, backlog, received, delivered>>

\* The engine requests the source to stop (the stop_token).
RequestStop ==
  /\ ~stopRequested /\ pc \notin {"closed", "failed"}
  /\ stopRequested' = TRUE
  /\ UNCHANGED <<mode, pc, resume, sockfd, listenfd, tupleBuffer, readWasValid,
                 flushIntervalPassed, flushDue, conn, sent, consumed, fin,
                 backlog, received, delivered>>

\* A remote client connects to the listening socket (server mode).
PeerConnect(p) ==
  /\ mode = "server" /\ listenfd /\ conn[p] = "none"
  /\ conn' = [conn EXCEPT ![p] = "open"]
  /\ backlog' = Append(backlog, p)
  /\ UNCHANGED <<mode, pc, resume, sockfd, listenfd, tupleBuffer, readWasValid,
                 flushIntervalPassed, flushDue, stopRequested, sent,
                 consumed, fin, received, delivered>>

\* The peer writes one more byte.
PeerSend(p) ==
  /\ conn[p] = "open" /\ ~fin[p] /\ sent[p] < MaxBytes
  /\ sent' = [sent EXCEPT ![p] = @ + 1]
  /\ UNCHANGED <<mode, pc, resume, sockfd, listenfd, tupleBuffer, readWasValid,
                 flushIntervalPassed, flushDue, stopRequested, conn,
                 consumed, fin, backlog, received, delivered>>

\* The peer closes its end of the connection.
PeerClose(p) ==
  /\ conn[p] = "open" /\ ~fin[p]
  /\ fin' = [fin EXCEPT ![p] = TRUE]
  /\ UNCHANGED <<mode, pc, resume, sockfd, listenfd, tupleBuffer, readWasValid,
                 flushIntervalPassed, flushDue, stopRequested, conn, sent,
                 consumed, backlog, received, delivered>>

-----------------------------------------------------------------------------
Init ==
  /\ mode \in Modes
  /\ pc = "init"
  /\ resume = "ready"
  /\ sockfd = NoFd
  /\ listenfd = FALSE
  /\ tupleBuffer = <<>>
  /\ readWasValid = TRUE
  /\ flushIntervalPassed = FALSE
  /\ flushDue = FALSE
  /\ stopRequested = FALSE
  /\ conn = [p \in Peers |-> "none"]
  /\ sent = [p \in Peers |-> 0]
  /\ consumed = [p \in Peers |-> 0]
  /\ fin = [p \in Peers |-> FALSE]
  /\ backlog = <<>>
  /\ received = <<>>
  /\ delivered = <<>>

SourceStep ==
  \/ OpenClientConnection
  \/ SetupServerListener
  \/ AwaitClientConnection
  \/ FillTupleBuffer
  \/ ReadData
  \/ ReadEof
  \/ ReadError
  \/ FillBufferReturn
  \/ Close

PeerStep ==
  \E p \in Peers : PeerConnect(p) \/ PeerSend(p) \/ PeerClose(p)

Next ==
  \/ SourceStep
  \/ FlushTimerExpires
  \/ RequestStop
  \/ PeerStep

\* The source thread and the clock always progress; peers need not.
Fairness ==
  /\ WF_vars(SourceStep)
  /\ WF_vars(FlushTimerExpires)

Spec == Init /\ [][Next]_vars /\ Fairness

\* The peers connect, send all they have and close; no stop is requested.
PeerFairness ==
  \A p \in Peers : WF_vars(PeerConnect(p) \/ PeerSend(p) \/ PeerClose(p))

NoStopNext == SourceStep \/ FlushTimerExpires \/ PeerStep

FairPeerSpec == Init /\ [][NoStopNext]_vars /\ Fairness /\ PeerFairness

-----------------------------------------------------------------------------
(* Properties                                                              *)

TypeOK ==
  /\ mode \in Modes
  /\ pc \in PcValues
  /\ resume \in {"ready", "reading"}
  /\ sockfd \in Peers \cup {NoFd}
  /\ listenfd \in BOOLEAN
  /\ tupleBuffer \in Seq(Byte) /\ Len(tupleBuffer) <= BufferSize
  /\ {readWasValid, flushIntervalPassed, flushDue, stopRequested} \subseteq BOOLEAN
  /\ conn \in [Peers -> {"none", "open"}]
  /\ sent \in [Peers -> 0..MaxBytes]
  /\ consumed \in [Peers -> 0..MaxBytes]
  /\ fin \in [Peers -> BOOLEAN]
  /\ backlog \in Seq(Peers)
  /\ received \in Seq(Byte)
  /\ delivered \in Seq(Seq(Byte))

\* Every byte read() took out of a socket reaches a returned TupleBuffer,
\* once, in the order it was read: whenever fillTupleBuffer is not running,
\* the returned buffers put together are exactly the bytes read.
NoDataLoss ==
  pc \in {"ready", "eos", "closed"} => FlattenSeq(delivered) = received

\* Even where bytes are lost, fillTupleBuffer never duplicates or reorders
\* them: the bytes of the returned buffers, put together, are the bytes
\* read() returned with some left out (each byte is read at most once).
DeliveredInReadOrder ==
  LET out == FlattenSeq(delivered)
  IN  out = SelectSeq(received, LAMBDA b : b \in ToSet(out))

\* A TupleBuffer never mixes bytes of two client connections: fillBuffer
\* only drops a client and accepts the next one when numReceivedBytes = 0.
BufferFromOneConnection ==
  \A i \in 1..Len(delivered) :
    \A j, k \in 1..Len(delivered[i]) : delivered[i][j][1] = delivered[i][k][1]

\* Once the connected peer has closed, the pending fillTupleBuffer call
\* returns: read() yields 0 forever, so the loop must end by itself.
FillReturnsAfterPeerClose ==
  [](pc = "reading" /\ sockfd # NoFd /\ fin[sockfd] => <>(pc # "reading"))

\* When peers send everything and close, every byte sent is eventually
\* handed out in a TupleBuffer, across end of file, reconnects and flushes,
\* unless a socket error made the source fail.
AllSentDelivered ==
  \A p \in Peers :
    [](fin[p] => <>(\/ pc = "failed"
                    \/ \A i \in 1..sent[p] :
                         <<p, i>> \in ToSet(FlattenSeq(delivered))))

\* fillTupleBuffer returns 0, which the source thread takes for end of
\* stream, only when the connected peer has closed its end and every byte
\* it sent has been read.
EosOnlyAfterPeerClose ==
  pc = "eos" => sockfd # NoFd /\ fin[sockfd] /\ Avail(sockfd) = 0

\* A stop request is honoured: the source thread eventually closes the
\* source (or fails) instead of blocking for ever in read() or accept().
StopIsHonoured ==
  stopRequested ~> (pc \in {"closed", "failed"})

=============================================================================

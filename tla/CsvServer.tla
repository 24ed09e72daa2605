------------------------------ MODULE CsvServer ------------------------------
(***************************************************************************)
(* The CSV replay server (scripts/tcp_source_csv_server.py), the peer of  *)
(* a client-mode TCP source.  run_server accepts one client at a time and *)
(* calls stream_to_client, which sends every line the generator           *)
(* iter_filtered_csv_lines yields, then shuts the socket down and closes  *)
(* it.  The generator reads the file row by row, skipping the header when *)
(* asked and blank rows, forwarding rows without a usable timestamp as    *)
(* they are, and dropping a row whose timestamp is not above the last     *)
(* forwarded one (per key, globally, or both).  With --loop it reopens    *)
(* the file after the last row; its filter state lives as long as the     *)
(* generator, that is for the whole connection.                           *)
(*                                                                         *)
(* A row is a record: its kind ("ts" with a timestamp and a key, "nots"   *)
(* for a timestamp that is missing or does not parse, "blank"), not its   *)
(* text; the delimiter, the encoding and the --delay sleep are left out.  *)
(* The server's options are chosen in Init from the constants, so one run *)
(* covers several command lines.                                          *)
(***************************************************************************)
EXTENDS Integers, Sequences, FiniteSets

CONSTANTS
  Clients,      \* clients that connect to the server
  Keys,         \* values of the --key-col-index columns
  Files,        \* candidate CSV files: sequences of rows
  LoopModes,    \* values of --loop
  Scopes,       \* values of --order-scope
  NoClient      \* no connection accepted

ASSUME Scopes \subseteq {"global", "per-key", "both"}
ASSUME LoopModes \subseteq BOOLEAN

ASSUME NoClient \notin Clients
NegInf == -1    \* float("-inf"): below every timestamp of the files
NoLine == [kind |-> "blank", ts |-> 0, key |-> CHOOSE k \in Keys : TRUE]

VARIABLES
  loop, scope, keyed, skipHeader, file,  \* the command line
  spc,          \* server: "accept", "next" (generator), "send", "close"
  cur,          \* the client being served, or NoClient
  idx,          \* rows of the current pass read so far
  first,        \* the generator's `first`
  lastG,        \* last_ts_global
  lastK,        \* last_ts_by_key
  line,         \* the row yielded and being sent
  cst,          \* [Clients -> {"idle", "queued", "served", "gone", "done"}]
  rst,          \* [Clients -> BOOLEAN]: a send after the client left drew a reset
  backlog,      \* connections completed and not yet accepted
  got           \* history: [Clients -> last timestamp received, globally and per key]

options == <<loop, scope, keyed, skipHeader, file>>
vars == <<options, spc, cur, idx, first, lastG, lastK, line, cst, rst, backlog, got>>

NoGot == [g |-> NegInf, k |-> [k \in Keys |-> NegInf]]

-----------------------------------------------------------------------------
(* iter_filtered_csv_lines                                                 *)

\* Per-key ordering is enforced only when --key-col-index was given.
PerKey == scope \in {"per-key", "both"} /\ keyed
Global == scope \in {"global", "both"}

\* The filter for a row with a timestamp: the per-key test (which stores
\* the row's timestamp as soon as it passes), then the global test.
PassesPerKey(r) == ~PerKey \/ r.ts > lastK[r.key]
PassesGlobal(r) == ~Global \/ r.ts > lastG

\* One iteration of `for row in reader`: the row is skipped, or yielded.
NextRow ==
  /\ spc = "next" /\ idx < Len(file)
  /\ LET r == file[idx + 1]
         skip == (first /\ skipHeader) \/ r.kind = "blank"
     IN  /\ idx' = idx + 1
         /\ first' = FALSE
         /\ IF skip
              THEN UNCHANGED <<spc, lastG, lastK, line>>
            ELSE IF r.kind = "nots"
              THEN /\ spc' = "send" /\ line' = r
                   /\ UNCHANGED <<lastG, lastK>>
            ELSE /\ lastK' = IF PerKey /\ PassesPerKey(r)
                               THEN [lastK EXCEPT ![r.key] = r.ts] ELSE lastK
                 /\ IF PassesPerKey(r) /\ PassesGlobal(r)
                      THEN /\ lastG' = IF Global THEN r.ts ELSE lastG
                           /\ spc' = "send" /\ line' = r
                      ELSE UNCHANGED <<spc, lastG, line>>
  /\ UNCHANGED <<options, cur, cst, rst, backlog, got>>

\* The end of a pass: with --loop the file is opened again (and `first`
\* is set again), otherwise the generator is exhausted.
EndOfPass ==
  /\ spc = "next" /\ idx = Len(file)
  /\ IF loop
       THEN /\ idx' = 0 /\ first' = TRUE
            /\ UNCHANGED spc
       ELSE /\ spc' = "close"
            /\ UNCHANGED <<idx, first>>
  /\ UNCHANGED <<options, cur, lastG, lastK, line, cst, rst, backlog, got>>

-----------------------------------------------------------------------------
(* stream_to_client and run_server                                         *)

\* server_sock.accept(): the oldest completed connection; a new generator
\* starts with fresh filter state.
Accept ==
  /\ spc = "accept" /\ backlog # <<>>
  /\ cur' = Head(backlog)
  /\ backlog' = Tail(backlog)
  /\ cst' = IF cst[Head(backlog)] = "queued"
              THEN [cst EXCEPT ![Head(backlog)] = "served"] ELSE cst
  /\ spc' = "next"
  /\ idx' = 0 /\ first' = TRUE
  /\ lastG' = NegInf /\ lastK' = [k \in Keys |-> NegInf]
  /\ UNCHANGED <<options, line, rst, got>>

\* Received timestamps of a client after it got row r.
Received(g, r) ==
  IF r.kind # "ts" THEN g
  ELSE [g EXCEPT !.g = r.ts, !.k[r.key] = r.ts]

\* client_sock.sendall(line).  To a connected client the row is delivered.
\* After the client has closed, the first send still succeeds and draws a
\* reset; the next raises BrokenPipeError or ConnectionResetError, which
\* ends the stream.
Send ==
  /\ spc = "send"
  /\ \/ /\ cst[cur] = "served"
        /\ got' = [got EXCEPT ![cur] = Received(@, line)]
        /\ spc' = "next"
        /\ UNCHANGED rst
     \/ /\ cst[cur] = "gone" /\ ~rst[cur]
        /\ rst' = [rst EXCEPT ![cur] = TRUE]
        /\ spc' = "next"
        /\ UNCHANGED got
     \/ /\ cst[cur] = "gone" /\ rst[cur]
        /\ spc' = "close"
        /\ UNCHANGED <<rst, got>>
  /\ UNCHANGED <<options, cur, idx, first, lastG, lastK, line, cst, backlog>>

\* finally: shutdown(SHUT_RDWR) (errors ignored) and close(); run_server
\* goes back to accept().
CloseClient ==
  /\ spc = "close"
  /\ cst' = [cst EXCEPT ![cur] = "done"]
  /\ cur' = NoClient
  /\ spc' = "accept"
  /\ UNCHANGED <<options, idx, first, lastG, lastK, line, rst, backlog, got>>

-----------------------------------------------------------------------------
(* The clients.                                                            *)

\* connect(): the handshake completes into the listen backlog.  A client
\* whose connection has ended may open a new one.
Connect(c) ==
  /\ cst[c] \in {"idle", "done"}
  /\ cst' = [cst EXCEPT ![c] = "queued"]
  /\ backlog' = Append(backlog, c)
  /\ rst' = [rst EXCEPT ![c] = FALSE]
  /\ got' = [got EXCEPT ![c] = NoGot]
  /\ UNCHANGED <<options, spc, cur, idx, first, lastG, lastK, line>>

\* The client closes its socket, before or while it is served.
Disconnect(c) ==
  /\ cst[c] \in {"queued", "served"}
  /\ cst' = [cst EXCEPT ![c] = "gone"]
  /\ UNCHANGED <<options, spc, cur, idx, first, lastG, lastK, line, rst, backlog, got>>

-----------------------------------------------------------------------------
Init ==
  /\ loop \in LoopModes /\ scope \in Scopes /\ keyed \in BOOLEAN
  /\ skipHeader \in BOOLEAN /\ file \in Files
  /\ spc = "accept" /\ cur = NoClient
  /\ idx = 0 /\ first = TRUE
  /\ lastG = NegInf /\ lastK = [k \in Keys |-> NegInf]
  /\ line = NoLine
  /\ cst = [c \in Clients |-> "idle"]
  /\ rst = [c \in Clients |-> FALSE]
  /\ backlog = <<>>
  /\ got = [c \in Clients |-> NoGot]

ServerStep == NextRow \/ EndOfPass \/ Accept \/ Send \/ CloseClient

ClientStep == \E c \in Clients : Connect(c) \/ Disconnect(c)

Next == ServerStep \/ ClientStep

\* The server is a single thread that runs whenever it can; clients need
\* not act.
Spec == Init /\ [][Next]_vars /\ WF_vars(ServerStep)

-----------------------------------------------------------------------------
(* Properties                                                              *)

\* "When the client disconnects, the server waits for the next connection"
\* (the script's docstring): a client that leaves while it is served is
\* eventually dropped by stream_to_client.
ClientDisconnectNoticed ==
  \A c \in Clients : (cur = c /\ cst[c] = "gone") ~> (cst[c] = "done")

\* iter_filtered_csv_lines "enforc[es] strictly increasing order on the
\* timestamp column": every timestamped row a client receives is later than
\* the last one it received on this connection, across --loop passes, in
\* the scope chosen.
InOrderPerClient ==
  [][\A c \in Clients :
       cst[c] = "served" /\ got'[c] # got[c] =>
         /\ Global => got'[c].g > got[c].g
         /\ PerKey => \A k \in Keys : got'[c].k[k] # got[c].k[k] =>
                                        got'[c].k[k] > got[c].k[k]]_got

=============================================================================

--------------------------- MODULE StreamProcessor ---------------------------
(***************************************************************************)
(* The stream processor: what pgshadow makes of the messages it observes   *)
(* on the source's connections.  It joins the framing parsers, the event   *)
(* builder, the bind correlator, the COPY tracker, the TxID generator, the *)
(* source timer, the transaction state machine and the filter              *)
(* (src/pkg/pipeline/processor.go, src/pkg/protocol, src/pkg/filter), and  *)
(* is driven by the reassembler (src/pkg/capture/reassembler.go).          *)
(*                                                                         *)
(* The clients, the pooler and PostgreSQL are external.  An action is one  *)
(* message of theirs, or the answer to one command, together with the      *)
(* OnBytes call that observes it: one goroutine handles the packets in the *)
(* order of the capture point.  Messages arrive whole and without gaps.    *)
(* A Bind stands for Bind, Execute and Sync, a Parse for Parse and Sync.   *)
(***************************************************************************)
EXTENDS SQLFilter

CONSTANTS Conns,         \* TCP four-tuples (ConnIDs)
          Names,         \* prepared statement names
          Unnamed,       \* the name "", which a Parse may redefine
          Queries,       \* texts that applications send as Simple_Query
          Prepared,      \* texts that applications Parse
          ResetQueries,  \* the pooler's server_reset_query, one of these
          Oversized,     \* texts longer than max_sql_length
          Configs,       \* records [mode, pooler, extended]
          Attached,      \* TRUE if connections may be open when capture begins
          Depth,         \* commands a client sends without waiting, at least 1
          MaxBatch,      \* bound: statements in one text
          MaxCopy,       \* the tracker's maxBytes, in segments
          MaxSegments,   \* bound: segments of one COPY
          MaxMessages,   \* bound: client messages in all
          None           \* nil, no entry

Texts == Queries \union Prepared \union ResetQueries
ParseInfos == [sql : Texts, owner : Nat]  \* what BindCorrelator keeps of a Parse

ASSUME StreamAssumption ==
  /\ Texts \subseteq Seq(Kinds) \ {<<>>}
  /\ Oversized \subseteq Texts /\ Excluded \subseteq Texts /\ Included \subseteq Texts
  /\ DOMAIN Overrides \subseteq RuleClasses
  /\ Configs \subseteq [mode : {"custom", "write_only", "all", "ddl_only", "dml_only"},
                        pooler : BOOLEAN, extended : BOOLEAN]
  /\ Unnamed \in Names
  /\ Attached \in BOOLEAN
  /\ MaxBatch \in Nat /\ \A sql \in Texts : Len(sql) <= MaxBatch
  /\ Depth \in Nat \ {0} /\ MaxCopy \in Nat /\ MaxSegments \in Nat /\ MaxMessages \in Nat
  /\ None \notin Texts /\ None \notin ParseInfos

VARIABLES cfg,      \* the configuration pgshadow was started with
          sp,       \* StreamProcessor's state of each connection
          counter,  \* TxIDGenerator.counter
          tcp,      \* external: closed, startup, cancelling or ready
          srv,      \* external: the session's status, prepared statements and owner
          sending,  \* external: commands sent and not answered, oldest first
          copyIn,   \* external: segments the client has sent of a COPY it has not ended
          believes, \* external: names the client expects to be prepared
          messages, \* how many messages the clients have sent
          shadow,   \* history: status of a target session that runs the kept events
          blocks,   \* history: TxIDs used inside the session's open transaction block
          past,     \* history: TxIDs used inside earlier transaction blocks
          strayed,  \* history: a failure in the open session of a command the shadow does not run
          reparsed  \* history: names Parsed since capture last met the connection

env  == <<tcp, srv, sending, copyIn, believes, messages>>
hist == <<shadow, blocks, past, strayed, reparsed>>
vars == <<cfg, sp, counter, env, hist>>
-----------------------------------------------------------------------------
(***************************************************************************)
(* The processor's state of one connection and the handlers on it.         *)
(***************************************************************************)
NoStatements == [n \in Names |-> None]

\* What OnClose leaves: no entry in any of the maps.
Released == [client |-> "none", server |-> "none", sm |-> "Idle", txid |-> 0,
             seq |-> 0, parsed |-> NoStatements, copy |-> None,
             timing |-> FALSE, lastSQL |-> None]

\* A client parser begins in the startup phase, a server parser is typed.
parsersFor(p) == IF p.client = "none" THEN [p EXCEPT !.client = "startup", !.server = "typed"] ELSE p

\* A typed message read as a startup message announces a length of more than
\* 2^30 bytes: Feed waits for them, and past maxStalledBuffer discards its input.
Feed(p) == [p EXCEPT !.client = IF @ = "typed" THEN @ ELSE "stuck"]

isPoolerResetQuery(sql) == Head(sql) \in {"discardAll", "resetAll", "deallocateAll"}

resetPoolerSession_KeepStatements(p) == [p EXCEPT !.copy = None, !.txid = 0, !.timing = FALSE]
resetPoolerSession(p) == [p EXCEPT !.parsed = NoStatements, !.copy = None, !.txid = 0, !.timing = FALSE]

\* dispatch gives the event a new TxID for BEGIN and for a first write.
Advances_OnWrite(p, sql) == p.txid = 0 /\ Classify(sql) \in {"DML", "DDL", "CopyFrom"}
Advances(p, sql) == \/ Classify(sql) = "Begin"
                    \/ p.txid = 0 /\ Classify(sql) \in {"DML", "DDL", "CopyFrom"}
TxIDFor(p, sql) == IF Advances(p, sql) THEN counter + 1 ELSE p.txid

dispatch_AlwaysResets(p, sql) ==
  LET class == Classify(sql)
      q     == [p EXCEPT !.seq = @ + 1, !.lastSQL = sql, !.sm = OnStatement(@, class),
                         !.txid = IF class = "CommitRollback" THEN 0 ELSE TxIDFor(p, sql)]
  IN  IF class = "Utility" /\ isPoolerResetQuery(sql) THEN resetPoolerSession(q) ELSE q

dispatch(p, sql) ==
  LET class == Classify(sql)
      q     == [p EXCEPT !.seq = @ + 1, !.lastSQL = sql, !.sm = OnStatement(@, class),
                         !.txid = IF class = "CommitRollback" THEN 0 ELSE TxIDFor(p, sql)]
  IN  IF cfg.pooler /\ class = "Utility" /\ isPoolerResetQuery(sql)
      THEN resetPoolerSession(q) ELSE q

OnClientQuery(p) == [p EXCEPT !.timing = TRUE]

\* CopyTracker: Start, Data, Done.
CopyStart(p, sql) == [p EXCEPT !.copy = [sql |-> sql, data |-> 0, overflow |-> FALSE]]
CopyAppend_OffByOne(copy) ==
  IF copy = None \/ copy.overflow THEN copy
  ELSE IF copy.data > MaxCopy THEN [copy EXCEPT !.overflow = TRUE, !.data = 0]
  ELSE [copy EXCEPT !.data = @ + 1]
CopyAppend_Restarts(copy) ==
  IF copy = None THEN copy
  ELSE IF copy.data + 1 > MaxCopy THEN [copy EXCEPT !.data = 0]
  ELSE [copy EXCEPT !.data = @ + 1]
CopyAppend(copy) ==
  IF copy = None \/ copy.overflow THEN copy
  ELSE IF copy.data + 1 > MaxCopy THEN [copy EXCEPT !.overflow = TRUE, !.data = 0]
  ELSE [copy EXCEPT !.data = @ + 1]
CopyComplete(copy) == copy # None /\ ~copy.overflow

\* What the processor does with a framed Simple_Query.
onQuery(p, sql) ==
  IF sql \in Oversized THEN p
  ELSE OnClientQuery(IF Classify(sql) = "CopyFrom" THEN CopyStart(p, sql) ELSE dispatch(p, sql))
Dispatches(sql) == sql \notin Oversized /\ Classify(sql) # "CopyFrom"

\* A Parse is recorded with the logical session (owner) that sent it.
onParse(p, n, sql, owner) ==
  IF cfg.extended /\ sql \notin Oversized
  THEN [p EXCEPT !.parsed[n] = [sql |-> sql, owner |-> owner]] ELSE p

\* The statement a Bind refers to, None if it is an orphan.
OnBind(p, n) == p.parsed[n]

\* CommandComplete and ReadyForQuery: the status is taken over, the timer stops.
onReady_KeepsStatus(p, status) ==
  IF p.server = "typed" THEN [p EXCEPT !.timing = FALSE] ELSE p
onReady_KeepsTiming(p, status) ==
  IF p.server = "typed" THEN [p EXCEPT !.sm = status] ELSE p
onReady(p, status) ==
  IF p.server = "typed" THEN [p EXCEPT !.sm = status, !.timing = FALSE] ELSE p
-----------------------------------------------------------------------------
(***************************************************************************)
(* PostgreSQL: the effect of a text on the status of a session, when the   *)
(* statement number e fails (0: none does).  A failure ends the batch.     *)
(***************************************************************************)
Fail(status) == IF status = "Idle" THEN "Idle" ELSE "Failed"

Rejected(kind, status) == \/ status = "Failed" /\ kind \notin {"commit", "abort", "rollbackTo"}
                          \/ status = "Idle" /\ kind = "rollbackTo"
                          \/ status # "Idle" /\ kind = "discardAll"

After(kind, status) == CASE kind \in {"commit", "abort"}    -> "Idle"
                         [] kind \in {"begin", "rollbackTo"} -> "InTx"
                         [] OTHER                            -> status

\* One statement of a batch, after the ones before it.
Statement(kind, fails, run) ==
  IF run.halted THEN run
  ELSE IF Rejected(kind, run.status) THEN [status |-> Fail(run.status), halted |-> TRUE]
  ELSE IF fails THEN [status |-> IF kind = "commit" THEN "Idle" ELSE Fail(run.status), halted |-> TRUE]
  ELSE [status |-> After(kind, run.status), halted |-> FALSE]

Execute(sql, status, e) ==
  LET run[i \in 0..Len(sql)] == IF i = 0 THEN [status |-> status, halted |-> FALSE]
                                ELSE Statement(sql[i], i = e, run[i - 1])
  IN  run[Len(sql)]

Streams(sql) == "copyFrom" \in Range(sql)
Deallocates(sql) == Range(sql) \cap {"discardAll", "deallocateAll"} # {}

Session(owner) == [status |-> "Idle", prep |-> NoStatements, owner |-> owner]

\* A command on its way, with what the processor has made of it: the text of
\* its event, if it is seen, is not always the text the server runs.
Command(kind, name, sql, p, seen, owner) ==
  [kind   |-> kind, name |-> name, sql |-> sql, owner |-> owner, seen |-> seen,
   judged |-> p.sm, duplex |-> p.server = "typed",
   kept   |-> seen /\ Decide(cfg.mode, sql, p.sm) = Keep,
   txid   |-> IF seen THEN TxIDFor(p, sql) ELSE 0,
   event  |-> IF seen THEN sql ELSE None,
   ended  |-> FALSE, sent |-> 0, data |-> 0]

\* Applications do not send BEGIN inside a transaction block, nor a COPY
\* behind commands that are not answered.
MaySend(c, sql) == /\ tcp[c] = "ready"
                   /\ Len(sending[c]) < Depth
                   /\ copyIn[c] = None
                   /\ messages < MaxMessages
                   /\ "begin" \in Range(sql) => srv[c].status = "Idle"
                   /\ Streams(sql) => sending[c] = <<>>

Send(c, cmd) == /\ sending' = [sending EXCEPT ![c] = Append(@, cmd)]
                /\ messages' = messages + 1
-----------------------------------------------------------------------------
(***************************************************************************)
(* Connections.                                                            *)
(***************************************************************************)
Open(c, s) == /\ tcp' = [tcp EXCEPT ![c] = s]
              /\ UNCHANGED <<cfg, counter, srv, sending, copyIn, believes, messages, hist>>

\* The handshake: no bytes for OnBytes yet.
Connect(c) == /\ tcp[c] = "closed"
              /\ Open(c, "startup")
              /\ UNCHANGED sp

\* An SSLRequest and the server's one-byte refusal.  The client stays in the
\* startup phase; the typed server parser takes the byte for a message type
\* and the next message's first bytes for an impossible length.
RefuseSSL(c) == /\ tcp[c] = "startup"
                /\ sp' = [sp EXCEPT ![c] = [parsersFor(@) EXCEPT !.server = "stuck"]]
                /\ UNCHANGED <<cfg, counter, env, hist>>

\* A CancelRequest: the parser is made, nothing else happens.
Cancel(c) == /\ tcp[c] = "startup"
             /\ Open(c, "cancelling")
             /\ sp' = [sp EXCEPT ![c] = parsersFor(@)]

\* The StartupMessage, and the ReadyForQuery that ends the server's welcome.
Startup(c) == /\ tcp[c] = "startup"
              /\ Open(c, "ready")
              /\ sp' = [sp EXCEPT ![c] = onReady([parsersFor(@) EXCEPT !.client = "typed"], "Idle")]

\* Both ends are seen to close: ReassemblyComplete calls OnClose.
Fin(c) ==
  /\ tcp[c] # "closed"
  /\ tcp' = [tcp EXCEPT ![c] = "closed"]
  /\ sp' = [sp EXCEPT ![c] = Released]
  /\ srv' = [srv EXCEPT ![c] = Session(0)]
  /\ sending' = [sending EXCEPT ![c] = <<>>]
  /\ copyIn' = [copyIn EXCEPT ![c] = None]
  /\ believes' = [believes EXCEPT ![c] = {}]
  /\ shadow' = [shadow EXCEPT ![c] = "Idle"]
  /\ past' = past \union blocks[c]
  /\ blocks' = [blocks EXCEPT ![c] = {}]
  /\ strayed' = [strayed EXCEPT ![c] = FALSE]
  /\ reparsed' = [reparsed EXCEPT ![c] = {}]
  /\ UNCHANGED <<cfg, counter, messages>>

\* FlushOlderThan on an idle connection, or reasm.Close when capture is paused
\* or moves: the connection lives on, the processor forgets it.
Release(c) == /\ tcp[c] # "closed"
              /\ sp[c].client # "none"
              /\ sp' = [sp EXCEPT ![c] = Released]
              /\ reparsed' = [reparsed EXCEPT ![c] = {}]
              /\ UNCHANGED <<cfg, counter, env, shadow, blocks, past, strayed>>
-----------------------------------------------------------------------------
(***************************************************************************)
(* Client messages: OnBytes(conn, TRUE, ...) and handleClient.             *)
(***************************************************************************)
Observed(c) == Feed(parsersFor(sp[c]))

SimpleQuery(c, kind, sql) ==
  LET p    == Observed(c)
      seen == p.client = "typed" /\ Dispatches(sql)
  IN  /\ MaySend(c, sql)
      /\ sp' = [sp EXCEPT ![c] = IF p.client = "typed" THEN onQuery(p, sql) ELSE p]
      /\ counter' = IF seen /\ Advances(p, sql) THEN counter + 1 ELSE counter
      /\ Send(c, Command(kind, None, sql, p, seen, srv[c].owner))
      /\ copyIn' = [copyIn EXCEPT ![c] = IF Streams(sql) /\ srv[c].status # "Failed" THEN 0 ELSE None]
      /\ UNCHANGED <<cfg, tcp, srv, believes, hist>>

\* Behind a pooler, applications leave the reset commands to the pooler.
Query(c, sql) == /\ cfg.pooler => ~isPoolerResetQuery(sql)
                 /\ SimpleQuery(c, "query", sql)

\* The pooler gives the server connection to another client; it closes a
\* connection whose reset fails.
PoolerReset(c, sql) == /\ cfg.pooler
                       /\ srv[c].status = "Idle" /\ sending[c] = <<>>
                       /\ SimpleQuery(c, "reset", sql)

Parse(c, n, sql) ==
  LET p == Observed(c)
  IN  /\ MaySend(c, sql)
      /\ n = Unnamed \/ srv[c].prep[n] = None
      /\ sp' = [sp EXCEPT ![c] = IF p.client = "typed" THEN onParse(p, n, sql, srv[c].owner) ELSE p]
      /\ Send(c, Command("parse", n, sql, p, FALSE, srv[c].owner))
      /\ reparsed' = [reparsed EXCEPT ![c] = IF cfg.extended /\ sql \notin Oversized
                                             THEN @ \union {n} ELSE @ \ {n}]
      /\ UNCHANGED <<cfg, counter, tcp, srv, copyIn, believes, shadow, blocks, past, strayed>>

\* A Bind that correlates is dispatched and timed, an orphan is skipped.
Bind(c, n) ==
  LET p    == Observed(c)
      info == OnBind(p, n)
      seen == p.client = "typed" /\ info # None
  IN  /\ n \in believes[c]
      /\ MaySend(c, IF srv[c].prep[n] = None THEN <<>> ELSE srv[c].prep[n])
      /\ sp' = [sp EXCEPT ![c] = IF seen THEN OnClientQuery(dispatch(p, info.sql)) ELSE p]
      /\ counter' = IF seen /\ Advances(p, info.sql) THEN counter + 1 ELSE counter
      /\ Send(c, IF seen THEN Command("bind", n, info.sql, p, TRUE, info.owner)
                         ELSE Command("bind", n, None, p, FALSE, srv[c].owner))
      /\ UNCHANGED <<cfg, tcp, srv, copyIn, believes, hist>>

CopyData(c) ==
  LET p == Observed(c)
  IN  /\ copyIn[c] # None /\ copyIn[c] < MaxSegments
      /\ copyIn' = [copyIn EXCEPT ![c] = @ + 1]
      /\ sp' = [sp EXCEPT ![c] = IF p.client = "typed" THEN [p EXCEPT !.copy = CopyAppend(@)] ELSE p]
      /\ UNCHANGED <<cfg, counter, tcp, srv, sending, believes, messages, hist>>

\* The end of the client's data.  The event is made now, with the text of the
\* buffer; the server may have answered already, with an error.
CopyDone(c) ==
  LET p    == Observed(c)
      done == p.client = "typed" /\ CopyComplete(p.copy)
      q    == [p EXCEPT !.copy = None]
      cmd  == Command(sending[c][1].kind, None, p.copy.sql, q, TRUE, srv[c].owner)
  IN  /\ copyIn[c] # None
      /\ copyIn' = [copyIn EXCEPT ![c] = None]
      /\ sp' = [sp EXCEPT ![c] = IF p.client # "typed" THEN p
                                 ELSE IF done THEN dispatch(q, p.copy.sql) ELSE q]
      /\ counter' = IF done /\ Advances(q, p.copy.sql) THEN counter + 1 ELSE counter
      /\ sending' = [sending EXCEPT ![c] =
           IF @ = <<>> THEN @
           ELSE IF done THEN <<[cmd EXCEPT !.sql = sending[c][1].sql, !.ended = TRUE,
                                           !.sent = copyIn[c], !.data = p.copy.data]>>
           ELSE <<[@[1] EXCEPT !.ended = TRUE]>>]
      /\ UNCHANGED <<cfg, tcp, srv, believes, messages, hist>>

\* The client aborts; the server will answer with an error.
CopyFail(c) ==
  LET p == Observed(c)
  IN  /\ copyIn[c] # None
      /\ copyIn' = [copyIn EXCEPT ![c] = None]
      /\ sp' = [sp EXCEPT ![c] = IF p.client = "typed" THEN [p EXCEPT !.copy = None] ELSE p]
      /\ UNCHANGED <<cfg, counter, tcp, srv, sending, believes, messages, hist>>

\* The client sees the server's error and sends no more of the COPY.
CopyStop(c) == /\ copyIn[c] # None /\ sending[c] = <<>>
               /\ copyIn' = [copyIn EXCEPT ![c] = None]
               /\ UNCHANGED <<cfg, sp, counter, tcp, srv, sending, believes, messages, hist>>
-----------------------------------------------------------------------------
(***************************************************************************)
(* The server's answer to the oldest command, statement e failing, and     *)
(* OnBytes(conn, FALSE, ...) with CommandComplete and ReadyForQuery.       *)
(***************************************************************************)
Runs(cmd, s, e) ==
  CASE cmd.kind = "parse" -> IF e # 0 \/ s.status = "Failed"
                             THEN [status |-> Fail(s.status), halted |-> TRUE]
                             ELSE [status |-> s.status, halted |-> FALSE]
    [] cmd.kind = "bind"  -> IF s.prep[cmd.name] = None
                             THEN [status |-> Fail(s.status), halted |-> TRUE]
                             ELSE Execute(s.prep[cmd.name], s.status, e)
    [] OTHER              -> Execute(cmd.sql, s.status, e)

PrepAfter(cmd, s, run) ==
  CASE cmd.kind = "parse" /\ ~run.halted -> [s.prep EXCEPT ![cmd.name] = cmd.sql]
    [] cmd.kind = "parse" /\ run.halted  -> [s.prep EXCEPT ![Unnamed] = IF cmd.name = Unnamed THEN None ELSE @]
    [] cmd.kind \in {"query", "reset"} /\ ~run.halted /\ Deallocates(cmd.sql) -> NoStatements
    [] OTHER -> s.prep

Reply(c, e) ==
  LET cmd  == Head(sending[c])
      s    == srv[c]
      run  == Runs(cmd, s, e)
      prep == PrepAfter(cmd, s, run)
      used == blocks[c] \union (IF cmd.kept THEN {cmd.txid} ELSE {})
  IN  /\ sending[c] # <<>>
      /\ cmd.kind = "query" /\ Streams(cmd.sql) => cmd.ended \/ run.halted
      /\ cmd.kind = "reset" => ~run.halted
      /\ sending' = [sending EXCEPT ![c] = Tail(@)]
      /\ srv' = [srv EXCEPT ![c] = [status |-> run.status, prep |-> prep,
                                    owner |-> IF cmd.kind = "reset" THEN s.owner + 1 ELSE s.owner]]
      /\ believes' = [believes EXCEPT ![c] = IF cmd.kind = "reset" THEN Names
                                             ELSE IF prep # s.prep \/ cmd.kind = "parse"
                                                  THEN {n \in Names : prep[n] # None} ELSE @]
      /\ sp' = [sp EXCEPT ![c] = onReady(parsersFor(@), run.status)]
      /\ shadow' = [shadow EXCEPT ![c] = IF cmd.kept THEN Execute(cmd.event, @, e).status ELSE @]
      /\ strayed' = [strayed EXCEPT ![c] = @ \/ (~cmd.kept /\ run.halted)]
      /\ blocks' = [blocks EXCEPT ![c] = IF s.status = "Idle" /\ run.status = "Idle" THEN @
                                         ELSE IF run.status = "Idle" THEN {} ELSE used]
      /\ past' = IF s.status # "Idle" /\ run.status = "Idle" THEN past \union used ELSE past
      /\ reparsed' = [reparsed EXCEPT ![c] = IF cmd.kind = "reset" THEN {} ELSE @]
      /\ UNCHANGED <<cfg, counter, tcp, copyIn, messages>>
-----------------------------------------------------------------------------
Init ==
  /\ cfg \in Configs
  /\ sp = [c \in Conns |-> Released]
  /\ counter = 0
  /\ tcp \in [Conns -> IF Attached THEN {"closed", "ready"} ELSE {"closed"}]
  /\ srv = [c \in Conns |-> Session(0)]
  /\ sending = [c \in Conns |-> <<>>]
  /\ copyIn = [c \in Conns |-> None]
  /\ believes = [c \in Conns |-> {}]
  /\ messages = 0
  /\ shadow = [c \in Conns |-> "Idle"]
  /\ blocks = [c \in Conns |-> {}]
  /\ past = {}
  /\ strayed = [c \in Conns |-> FALSE]
  /\ reparsed = [c \in Conns |-> {}]

Next ==
  \E c \in Conns :
    \/ Connect(c) \/ RefuseSSL(c) \/ Cancel(c) \/ Startup(c) \/ Fin(c) \/ Release(c)
    \/ \E sql \in Queries : Query(c, sql)
    \/ \E sql \in ResetQueries : PoolerReset(c, sql)
    \/ \E n \in Names, sql \in Prepared : Parse(c, n, sql)
    \/ \E n \in Names : Bind(c, n)
    \/ CopyData(c) \/ CopyDone(c) \/ CopyFail(c) \/ CopyStop(c)
    \/ \E e \in 0..MaxBatch : Reply(c, e)

Spec == Init /\ [][Next]_vars
-----------------------------------------------------------------------------
(***************************************************************************)
(* Properties.                                                             *)
(***************************************************************************)
SQLOrNone == Texts \union {None}

CopyBuffers == [sql : Texts, data : 0..MaxCopy, overflow : BOOLEAN]
ConnStates == [client : {"none", "startup", "typed", "stuck"}, server : {"none", "typed", "stuck"},
               sm : Status, txid : Nat, seq : Nat, parsed : [Names -> ParseInfos \union {None}],
               copy : CopyBuffers \union {None}, timing : BOOLEAN, lastSQL : SQLOrNone]
Sessions == [status : Status, prep : [Names -> SQLOrNone], owner : Nat]
Commands == [kind : {"query", "reset", "parse", "bind"}, name : Names \union {None}, sql : SQLOrNone,
             owner : Nat, seen : BOOLEAN, judged : Status, duplex : BOOLEAN, kept : BOOLEAN,
             txid : Nat, event : SQLOrNone, ended : BOOLEAN, sent : Nat, data : Nat]

TypeOK ==
  /\ cfg \in Configs
  /\ sp \in [Conns -> ConnStates] /\ counter \in Nat
  /\ tcp \in [Conns -> {"closed", "startup", "cancelling", "ready"}]
  /\ srv \in [Conns -> Sessions]
  /\ sending \in [Conns -> Seq(Commands)]
  /\ copyIn \in [Conns -> 0..MaxSegments \union {None}]
  /\ believes \in [Conns -> SUBSET Names]
  /\ messages \in 0..MaxMessages
  /\ shadow \in [Conns -> Status]
  /\ blocks \in [Conns -> SUBSET Nat] /\ past \subseteq Nat
  /\ strayed \in [Conns -> BOOLEAN]
  /\ reparsed \in [Conns -> SUBSET Names]

Pending(c) == sending[c] # <<>>

\* With clients that wait for ReadyForQuery, the filter judges a statement in
\* the transaction status in which the source will run it, whatever failed,
\* was batched or came from an earlier connection on the same ports
\* (StateMachine.State in dispatch, OnReadyForQuery, OnStatement).
JudgedInSourceStatus ==
  \A c \in Conns : Pending(c) /\ Head(sending[c]).seen /\ Head(sending[c]).duplex
                      => Head(sending[c]).judged = srv[c].status

\* A session that runs only the events kept from a connection is in the same
\* transaction status as the source's session: no BEGIN, COMMIT, ROLLBACK or
\* statement that matters to one is dropped, alone, in a batch or by Bind.  It
\* may differ after a failure of a command that is not replayed.  Modes that
\* keep transaction control only (Filter.Decide, classifyMultiStatement).
ShadowFollowsSource ==
  \A c \in Conns :
    /\ sp[c].client = "typed" /\ ~strayed[c]
    /\ cfg.extended /\ cfg.mode \in {"custom", "write_only", "all"}
    => shadow[c] = srv[c].status

\* The kept events of one transaction block carry one TxID, which is not 0 and
\* which no earlier block had (dispatch's TxID grouping and TxIDGenerator).
TxGrouped ==
  \A c \in Conns :
    /\ Cardinality(blocks[c]) <= 1
    /\ 0 \notin blocks[c]
    /\ blocks[c] \cap past = {}

\* The event of a Bind has the text that the server runs for it, and never a
\* text that another client of the pooler prepared (BindCorrelator,
\* resetPoolerSession, OnClose).
BindsOwnStatement ==
  \A c \in Conns :
    Pending(c) /\ Head(sending[c]).kind = "bind" /\ Head(sending[c]).seen
      => LET cmd == Head(sending[c])
         IN  /\ cmd.owner = srv[c].owner
             /\ srv[c].prep[cmd.name] \in {cmd.sql, None}

\* The name of a Bind that the server knows, Parsed since capture met the connection.
Reparsed(c) == /\ Pending(c) /\ Head(sending[c]).kind = "bind"
               /\ Head(sending[c]).name \in reparsed[c]
               /\ srv[c].prep[Head(sending[c]).name] # None

\* On a connection observed from its startup, a Bind of a statement whose
\* Parse was observed is never taken for an orphan (BindCorrelator.OnBind).  Of
\* one met later nothing is framed again, whatever its client prepares anew.
BindFindsParse ==
  \A c \in Conns : sp[c].client = "typed" /\ Reparsed(c) => Head(sending[c]).seen

\* The event of a COPY carries every segment the client sent for it and none
\* of an earlier COPY that failed or was cut off (CopyTracker).
CopyIsWhole ==
  \A c \in Conns : Pending(c) /\ Head(sending[c]).ended /\ Head(sending[c]).seen
                      => Head(sending[c]).data = Head(sending[c]).sent

\* The timer that the server's answer will stop was started by the command
\* being answered, and lastSQL is that command's: no answer to a Parse, an
\* orphaned Bind or an oversized statement is recorded as the time of an
\* earlier statement (recordExec, SourceExecTimer).
TimesOwnStatement ==
  \A c \in Conns :
    /\ Pending(c) /\ sp[c].timing /\ Head(sending[c]).duplex
    /\ Head(sending[c]).kind \in {"query", "reset"} => ~Streams(Head(sending[c]).sql)
    => Head(sending[c]).seen /\ sp[c].lastSQL = Head(sending[c]).sql

\* What is recorded of a command, its text and its time, is of that command:
\* neither another client's statement, nor an orphan, nor an earlier answer
\* (BindCorrelator, SourceExecTimer).
RecordsOwnStatement == BindsOwnStatement /\ BindFindsParse /\ TimesOwnStatement
=============================================================================

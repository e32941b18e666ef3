---------------------- MODULE StreamTransactionProofs ----------------------
(***************************************************************************)
(* Theorems about what the kept events of a connection amount to: a        *)
(* session that runs only them follows the source's transaction status     *)
(* (StreamShadowFollows), and those of one transaction block carry one     *)
(* TxID of their own (StreamGroupsTransactions).                           *)
(*                                                                         *)
(* Both are about what the server runs, so they rest on three facts.  What *)
(* a batch can do to a session's status is an induction over its           *)
(* statements (ExecuteInvariant): without control it leaves the status as  *)
(* it was, without BEGIN it opens no block, COMMIT at its head ends one.   *)
(* What an action does to events and history is stated once per action     *)
(* (the ...Effect lemmas).  And the text of an event is the text the       *)
(* server runs for it (Served): the correlator knows what the server has   *)
(* prepared, up to the answers under way, and the COPY buffer is of the    *)
(* COPY under way.                                                         *)
(*                                                                         *)
(* On these, Mirrored is inductive: a command that is not replayed carries *)
(* no control.  So is AllGrouped: inside a block, or on the way into one,  *)
(* the processor and the kept command on its way have the same TxID, not 0 *)
(* and not put away, and every TxID used in the block is that one; no two  *)
(* connections have a TxID in common, so what one puts away is none of the *)
(* other's.                                                                *)
(***************************************************************************)
EXTENDS StreamProcessorProofs
----------------------------------------------------------------------------
(***************************************************************************)
(* What a batch can do to the status of a session.                         *)
(***************************************************************************)
\* An argument by induction over the statements of a batch: outcome i is in G[i].
LEMMA ExecuteInvariant ==
    ASSUME NEW sql, NEW status, NEW e, Len(sql) \in Nat, NEW G,
           [status |-> status, halted |-> FALSE] \in G[0],
           \A i \in 1..Len(sql) : \A run \in G[i - 1] : Statement(sql[i], i = e, run) \in G[i]
    PROVE  Execute(sql, status, e) \in G[Len(sql)]
  <1>1. PICK run : /\ Running(run, Len(sql), sql, status, e)
                   /\ Execute(sql, status, e) = run[Len(sql)]
    BY ExecuteSteps
  <1>5. \A i \in 0..Len(sql) : run[i] = IF i = 0 THEN [status |-> status, halted |-> FALSE]
                                        ELSE Statement(sql[i], i = e, run[i - 1])
    BY <1>1, Zenon DEF Running
  <1> DEFINE S == {n \in Nat : n <= Len(sql) => run[n] \in G[n]}
  <1>2. 0 \in S
    <2>1. 0 \in 0..Len(sql)
      OBVIOUS
    <2>2. run[0] = [status |-> status, halted |-> FALSE]
      BY <1>1, <2>1 DEF Running
    <2> QED BY <2>2
  <1>3. ASSUME NEW n \in Nat, n \in S PROVE n + 1 \in S
    <2>1. SUFFICES ASSUME n + 1 <= Len(sql) PROVE run[n + 1] \in G[n + 1]
      OBVIOUS
    <2>2. run[n] \in G[n]
      BY <1>3, <2>1
    <2>3. n + 1 \in 0..Len(sql) /\ n + 1 \in 1..Len(sql) /\ n + 1 # 0 /\ (n + 1) - 1 = n
      BY <2>1
    <2>4. run[n + 1] = Statement(sql[n + 1], n + 1 = e, run[n])
      BY <1>5, <2>3
    <2>5. \A r \in G[n] : Statement(sql[n + 1], n + 1 = e, r) \in G[n + 1]
      BY <2>3
    <2> QED BY <2>2, <2>4, <2>5
  <1>4. Nat \subseteq S
    <2> HIDE DEF S
    <2> QED BY <1>2, <1>3, SetInduction
  <1> QED BY <1>1, <1>4

Control == {"begin", "commit", "abort", "rollbackTo"}
Uncontrolled(sql) == Range(sql) \cap Control = {}

LEMMA TextRange ==
    ASSUME NEW sql \in Texts, NEW i \in 1..Len(sql)
    PROVE  sql[i] \in Range(sql)
  <1>1. DOMAIN sql = 1..Len(sql)
    BY TextFacts
  <1> QED BY <1>1 DEF Range

\* Without control, a batch that is not cut short leaves the status as it was.
LEMMA ExecuteUncontrolled ==
    ASSUME NEW sql \in Texts, NEW status \in Status, NEW e, Uncontrolled(sql)
    PROVE  Execute(sql, status, e).halted \/ Execute(sql, status, e).status = status
  <1> DEFINE O == {r \in Outcomes : r.halted \/ r.status = status}
             G == [i \in 0..Len(sql) |-> O]
  <1>1. Len(sql) \in Nat
    BY TextFacts
  <1>2. [status |-> status, halted |-> FALSE] \in O
    BY DEF Outcomes
  <1>3. ASSUME NEW i \in 1..Len(sql), NEW run \in O PROVE Statement(sql[i], i = e, run) \in O
    <2> DEFINE s == Statement(sql[i], i = e, run)
    <2>1. s \in Outcomes
      BY StatementType, Zenon
    <2>2. After(sql[i], status) = status
      <3>1. sql[i] \notin Control
        BY TextRange DEF Uncontrolled
      <3> QED BY <3>1 DEF After, Control
    <2>3. s.halted \/ s.status = status
      BY <2>2 DEF Statement
    <2> HIDE DEF s
    <2> QED BY <2>1, <2>3 DEF s
  <1>4. Execute(sql, status, e) \in O
    <2>1. \A i \in 0..Len(sql) : G[i] = O
      OBVIOUS
    <2> HIDE DEF G, O
    <2>2. [status |-> status, halted |-> FALSE] \in G[0] /\ G[Len(sql)] = O
      BY <1>1, <1>2, <2>1
    <2>3. \A i \in 1..Len(sql) : \A run \in G[i - 1] : Statement(sql[i], i = e, run) \in G[i]
      BY <1>1, <1>3, <2>1
    <2> QED BY <1>1, <2>2, <2>3, ExecuteInvariant
  <1> QED BY <1>4

\* Outside a block, a batch without BEGIN opens none.
LEMMA ExecuteOpens ==
    ASSUME NEW sql \in Texts, NEW e, "begin" \notin Range(sql)
    PROVE  Execute(sql, "Idle", e).status = "Idle"
  <1> DEFINE O == {r \in Outcomes : r.status = "Idle"}
             G == [i \in 0..Len(sql) |-> O]
  <1>1. Len(sql) \in Nat
    BY TextFacts
  <1>2. [status |-> "Idle", halted |-> FALSE] \in O
    BY DEF Outcomes, Status
  <1>3. ASSUME NEW i \in 1..Len(sql), NEW run \in O PROVE Statement(sql[i], i = e, run) \in O
    <2> DEFINE s == Statement(sql[i], i = e, run)
    <2>1. s \in Outcomes
      BY StatementType, Zenon
    <2>2. sql[i] # "begin"
      BY TextRange
    <2>3. s.status = "Idle"
      BY <2>2 DEF Statement, Rejected, Fail, After
    <2> HIDE DEF s
    <2> QED BY <2>1, <2>3 DEF s
  <1>4. Execute(sql, "Idle", e) \in O
    <2>1. \A i \in 0..Len(sql) : G[i] = O
      OBVIOUS
    <2> HIDE DEF G, O
    <2>2. [status |-> "Idle", halted |-> FALSE] \in G[0] /\ G[Len(sql)] = O
      BY <1>1, <1>2, <2>1
    <2>3. \A i \in 1..Len(sql) : \A run \in G[i - 1] : Statement(sql[i], i = e, run) \in G[i]
      BY <1>1, <1>3, <2>1, SMTT(30)
    <2> QED BY <1>1, <2>2, <2>3, ExecuteInvariant
  <1> QED BY <1>4

\* A batch that begins with COMMIT and has no BEGIN ends outside a block,
\* whichever statement fails.
LEMMA ExecuteEnds ==
    ASSUME NEW sql \in Texts, NEW status \in Status, NEW e, sql[1] = "commit", "begin" \notin Range(sql)
    PROVE  Execute(sql, status, e).status = "Idle"
  <1> DEFINE O == {r \in Outcomes : r.status = "Idle"}
             start == [status |-> status, halted |-> FALSE]
             G == [i \in 0..Len(sql) |-> IF i = 0 THEN {start} ELSE O]
  <1>1. Len(sql) \in Nat /\ Len(sql) # 0
    BY TextFacts, EmptySeq
  <1>2. start \in Outcomes
    BY DEF Outcomes
  <1>3. ASSUME NEW i \in 1..Len(sql), NEW run \in Outcomes, run \in O \/ (i = 1 /\ run = start)
        PROVE  Statement(sql[i], i = e, run) \in O
    <2> DEFINE s == Statement(sql[i], i = e, run)
    <2>1. s \in Outcomes
      BY StatementType, Zenon
    <2>2. sql[i] # "begin"
      BY TextRange
    <2>3. s.status = "Idle"
      <3>1. CASE run \in O
        BY <2>2, <3>1 DEF Statement, Rejected, Fail, After
      <3>2. CASE i = 1 /\ run = start
        BY <3>2 DEF Statement, Rejected, Fail, After
      <3> QED BY <1>3, <3>1, <3>2
    <2> HIDE DEF s
    <2> QED BY <2>1, <2>3 DEF s
  <1>4. Execute(sql, status, e) \in O
    <2>1. G[0] = {start} /\ \A i \in 1..Len(sql) : G[i] = O
      OBVIOUS
    <2>o. O \subseteq Outcomes
      OBVIOUS
    <2> HIDE DEF G, O
    <2>2. start \in G[0] /\ G[Len(sql)] = O
      BY <1>1, <2>1
    <2>3. ASSUME NEW i \in 1..Len(sql), NEW run \in G[i - 1] PROVE Statement(sql[i], i = e, run) \in G[i]
      <3>1. CASE i = 1
        <4>1. run = start
          BY <2>1, <2>3, <3>1
        <4> QED BY <1>2, <1>3, <2>1, <3>1, <4>1
      <3>2. CASE i # 1
        <4>1. i - 1 \in 1..Len(sql)
          BY <1>1, <3>2
        <4> QED BY <1>3, <2>1, <2>o, <4>1
      <3> QED BY <3>1, <3>2
    <2> HIDE DEF start
    <2>4. [status |-> status, halted |-> FALSE] \in G[0]
      BY <2>2 DEF start
    <2> QED BY <1>1, <2>2, <2>3, <2>4, ExecuteInvariant
  <1> QED BY <1>4

\* What the class says of a batch.
LEMMA BeginClass ==
    ASSUME NEW sql \in Texts
    PROVE  /\ "begin" \in Range(sql) => Classify(sql) \in {"Begin", "CommitRollback"}
           /\ Classify(sql) = "Begin" => "begin" \in Range(sql)
  <1>0. DOMAIN sql = 1..Len(sql)
    BY TextFacts
  <1>1. ASSUME "begin" \in Range(sql) PROVE Classify(sql) \in {"Begin", "CommitRollback"}
    <2>1. PICK j \in DOMAIN sql : sql[j] = "begin"
      BY <1>1 DEF Range
    <2>2. stmtClassPriority[classifySingle(sql[j])] = 7
      <3>1. classifySingle(sql[j]) = "Begin"
        BY <2>1 DEF classifySingle
      <3> QED BY <3>1 DEF stmtClassPriority, Classes, RuleClasses
    <2>3. 7 <= stmtClassPriority[Classify(sql)]
      BY <2>2, ClassifyChooses
    <2>4. Classify(sql) \in Classes
      BY ClassifyType
    <2> QED BY <2>3, <2>4 DEF stmtClassPriority, Classes, RuleClasses
  <1>2. ASSUME Classify(sql) = "Begin" PROVE "begin" \in Range(sql)
    <2>1. PICK i \in DOMAIN sql : classifySingle(sql[i]) = "Begin"
      BY <1>2, ClassifyChooses
    <2>2. sql[i] = "begin"
      BY <2>1 DEF classifySingle
    <2> QED BY <2>1, <2>2 DEF Range
  <1> QED BY <1>1, <1>2

----------------------------------------------------------------------------
(***************************************************************************)
(* What the actions do to the events and the history, when Depth = 1.      *)
(***************************************************************************)
history == <<shadow, blocks, past, strayed>>

\* The command on its way is new and has an event with this text.
EventMade(c, sql) ==
    /\ sp[c].client = "typed"
    /\ Head(sending'[c]).seen /\ Head(sending'[c]).event = sql
    /\ Head(sending'[c]).txid = TxIDFor(sp[c], sql)
    /\ Head(sending'[c]).kept <=> Decide(cfg.mode, sql, sp[c].sm) = Keep
    /\ sp'[c].txid = IF Resets(sql) \/ Classify(sql) = "CommitRollback" THEN 0 ELSE TxIDFor(sp[c], sql)
    /\ counter' = IF Advances(sp[c], sql) THEN counter + 1 ELSE counter

\* The command on its way is new and has none.
NoEvent(c) ==
    /\ ~Head(sending'[c]).seen /\ ~Head(sending'[c]).kept
    /\ sp'[c].txid = sp[c].txid /\ counter' = counter

\* A command is sent, with nothing else on its way.
Sent(c, kind, name, sql) ==
    /\ tcp[c] = "ready" /\ sending[c] = <<>> /\ sending'[c] # <<>>
    /\ Head(sending'[c]).kind = kind /\ Head(sending'[c]).name = name /\ Head(sending'[c]).sql = sql
    /\ sp'[c].client = "typed" <=> sp[c].client = "typed"
    /\ UNCHANGED <<cfg, tcp, srv, believes, history>>

LEMMA SameTxID ==
    ASSUME NEW p, NEW q, p.txid = q.txid, NEW sql
    PROVE  TxIDFor(p, sql) = TxIDFor(q, sql) /\ (Advances(p, sql) <=> Advances(q, sql))
  BY DEF TxIDFor, Advances

LEMMA UnseenCommand ==
    ASSUME NEW kind, NEW n, NEW sql, NEW p, NEW owner
    PROVE  LET cmd == Command(kind, n, sql, p, FALSE, owner)
           IN  cmd.kind = kind /\ cmd.name = n /\ cmd.sql = sql /\ ~cmd.seen /\ ~cmd.kept
  <1> DEFINE b == FALSE
             cmd == Command(kind, n, sql, p, b, owner)
  <1>1. b \in BOOLEAN
    OBVIOUS
  <1>2. /\ cmd.kind = kind /\ cmd.name = n /\ cmd.sql = sql /\ (cmd.seen <=> b)
        /\ cmd.kept <=> b /\ Decide(cfg.mode, sql, p.sm) = Keep
    <2> HIDE DEF b
    <2> QED BY <1>1, CommandFacts
  <1> HIDE DEF cmd
  <1> QED BY <1>2 DEF cmd

LEMMA QueryEffect ==
    ASSUME StreamInv, Depth = 1, NEW c \in Conns, NEW kind \in {"query", "reset"}, NEW sql \in Texts,
           SimpleQuery(c, kind, sql)
    PROVE  /\ Sent(c, kind, None, sql)
           /\ "begin" \in Range(sql) => srv[c].status = "Idle"
           /\ IF sp[c].client = "typed" /\ Dispatches(sql) THEN EventMade(c, sql) ELSE NoEvent(c)
           /\ sp'[c].parsed = IF sp[c].client = "typed" /\ Dispatches(sql) /\ Resets(sql)
                              THEN NoStatements ELSE sp[c].parsed
           /\ sp[c].client = "typed" /\ sql \notin Oversized /\ Classify(sql) = "CopyFrom"
                 => sp'[c].copy = [sql |-> sql, data |-> 0, overflow |-> FALSE]
           /\ copyIn'[c] # None => Streams(sql)
  <1> DEFINE p == Observed(c)
             seen == p.client = "typed" /\ Dispatches(sql)
             cmd == Command(kind, None, sql, p, seen, srv[c].owner)
             z == onQuery(p, sql)
  <1>1. /\ tcp[c] = "ready" /\ Len(sending[c]) < Depth
        /\ sp'[c] = IF p.client = "typed" THEN z ELSE p
        /\ sending'[c] = Append(sending[c], cmd)
        /\ copyIn'[c] # None => Streams(sql)
        /\ UNCHANGED <<cfg, tcp, srv, believes>>
    BY SimpleQueryStep, Zenon
  <1>2. /\ counter' = IF seen /\ Advances(p, sql) THEN counter + 1 ELSE counter
        /\ UNCHANGED history
        /\ "begin" \in Range(sql) => srv[c].status = "Idle"
    BY DEF SimpleQuery, MaySend, hist, history
  <1>3. /\ p \in ConnStates /\ counter \in Nat
        /\ p.client = IF sp[c].client = "typed" THEN "typed" ELSE "stuck"
        /\ p.sm = sp[c].sm /\ p.txid = sp[c].txid /\ p.parsed = sp[c].parsed
    BY TypeFacts, ObservedFacts DEF Observed, StreamInv
  <1>4. seen \in BOOLEAN /\ (seen <=> sp[c].client = "typed" /\ Dispatches(sql))
    BY <1>3
  <1> HIDE DEF p
  <1>5. sending[c] = <<>> /\ sending'[c] # <<>> /\ Head(sending'[c]) = cmd
    BY <1>1, FirstCommand
  <1>6. TxIDFor(p, sql) = TxIDFor(sp[c], sql) /\ (Advances(p, sql) <=> Advances(sp[c], sql))
    BY <1>3, SameTxID
  <1>7. /\ z.client = p.client
        /\ sql \in Oversized => z = p
        /\ sql \notin Oversized /\ Classify(sql) = "CopyFrom"
              => /\ z.txid = p.txid /\ z.parsed = p.parsed
                 /\ z.copy = [sql |-> sql, data |-> 0, overflow |-> FALSE]
        /\ Dispatches(sql) => /\ z.txid = dispatch(p, sql).txid
                              /\ z.parsed = IF Resets(sql) THEN NoStatements ELSE p.parsed
    BY <1>3, QueryFacts
  <1>8. dispatch(p, sql).txid = IF Resets(sql) \/ Classify(sql) = "CommitRollback" THEN 0 ELSE TxIDFor(p, sql)
    <2> DEFINE d == dispatch(p, sql)
    <2>1. /\ Resets(sql) => d.txid = 0
          /\ ~Resets(sql) => d.txid = IF Classify(sql) = "CommitRollback" THEN 0 ELSE TxIDFor(p, sql)
      BY <1>3, DispatchFacts
    <2> HIDE DEF d
    <2>2. d.txid = IF Resets(sql) \/ Classify(sql) = "CommitRollback" THEN 0 ELSE TxIDFor(p, sql)
      BY <2>1
    <2> QED BY <2>2 DEF d
  <1>9. /\ cmd.kind = kind /\ cmd.name = None /\ cmd.sql = sql
        /\ cmd.seen <=> seen
        /\ cmd.event = IF seen THEN sql ELSE None
        /\ cmd.txid = IF seen THEN TxIDFor(p, sql) ELSE 0
        /\ cmd.kept <=> seen /\ Decide(cfg.mode, sql, p.sm) = Keep
    <2> HIDE DEF seen
    <2> QED BY <1>4, CommandFacts
  <1> HIDE DEF cmd, z, seen
  <1>10. sp'[c].client = "typed" <=> sp[c].client = "typed"
    BY <1>1, <1>3, <1>7
  <1>11. Sent(c, kind, None, sql)
    BY <1>1, <1>2, <1>5, <1>9, <1>10 DEF Sent
  <1>12. CASE seen
    <2>1. sp'[c] = z
      BY <1>1, <1>3, <1>4, <1>12
    <2>2. EventMade(c, sql)
      BY <1>2, <1>3, <1>4, <1>5, <1>6, <1>7, <1>8, <1>9, <1>12, <2>1 DEF EventMade
    <2> QED BY <1>1, <1>2, <1>3, <1>4, <1>7, <1>11, <1>12, <2>1, <2>2 DEF Dispatches
  <1>13. CASE ~seen
    <2>1. sp'[c].txid = sp[c].txid /\ sp'[c].parsed = sp[c].parsed
      BY <1>1, <1>3, <1>4, <1>7, <1>13 DEF Dispatches
    <2>2. NoEvent(c)
      BY <1>2, <1>5, <1>9, <1>13, <2>1 DEF NoEvent
    <2>3. sp[c].client = "typed" => sp'[c] = z
      BY <1>1, <1>3
    <2> QED BY <1>1, <1>2, <1>4, <1>7, <1>11, <1>13, <2>1, <2>2, <2>3
  <1> QED BY <1>12, <1>13

LEMMA ParseEffect ==
    ASSUME StreamInv, Depth = 1, NEW c \in Conns, NEW n \in Names, NEW sql \in Texts, Parse(c, n, sql)
    PROVE  /\ Sent(c, "parse", n, sql) /\ NoEvent(c)
           /\ copyIn'[c] = None
           /\ \A m \in Names : m # n => sp'[c].parsed[m] = sp[c].parsed[m]
           /\ sp[c].client = "typed" /\ cfg.extended /\ sql \notin Oversized => sp'[c].parsed[n] # None
  <1> DEFINE p == Observed(c)
             z == onParse(p, n, sql, srv[c].owner)
             cmd == Command("parse", n, sql, p, FALSE, srv[c].owner)
  <1>1. /\ tcp[c] = "ready" /\ Len(sending[c]) < Depth /\ copyIn[c] = None
        /\ sp'[c] = IF p.client = "typed" THEN z ELSE p
        /\ sending'[c] = Append(sending[c], cmd)
        /\ UNCHANGED <<cfg, counter, tcp, srv, believes, copyIn>>
    BY ParseStep, Zenon
  <1>2. UNCHANGED history
    BY DEF Parse, history
  <1>3. /\ p \in ConnStates /\ srv[c].owner \in Nat
        /\ p.client = IF sp[c].client = "typed" THEN "typed" ELSE "stuck"
        /\ p.txid = sp[c].txid /\ p.parsed = sp[c].parsed
    BY TypeFacts, ObservedFacts DEF Observed, StreamInv
  <1> HIDE DEF p
  <1>4. sending[c] = <<>> /\ sending'[c] # <<>> /\ Head(sending'[c]) = cmd
    BY <1>1, FirstCommand
  <1>5. /\ cmd.kind = "parse" /\ cmd.name = n /\ cmd.sql = sql /\ ~cmd.seen /\ ~cmd.kept
    BY UnseenCommand, ZenonT(60)
  <1>6. /\ z.client = p.client /\ z.txid = p.txid
        /\ \A m \in Names : m # n => z.parsed[m] = p.parsed[m]
        /\ z.parsed[n] = IF cfg.extended /\ sql \notin Oversized
                         THEN [sql |-> sql, owner |-> srv[c].owner] ELSE p.parsed[n]
    BY <1>3, ParseFacts
  <1> HIDE DEF z, cmd
  <1>7. [sql |-> sql, owner |-> srv[c].owner] # None
    BY <1>3, StreamAssumption DEF ParseInfos
  <1>8. sp'[c].client = "typed" <=> sp[c].client = "typed"
    BY <1>1, <1>3, <1>6
  <1>9. sp'[c].txid = sp[c].txid
    BY <1>1, <1>3, <1>6
  <1>10. \A m \in Names : m # n => sp'[c].parsed[m] = sp[c].parsed[m]
    BY <1>1, <1>3, <1>6
  <1>11. sp[c].client = "typed" /\ cfg.extended /\ sql \notin Oversized => sp'[c].parsed[n] # None
    BY <1>1, <1>3, <1>6, <1>7
  <1>12. Sent(c, "parse", n, sql) /\ NoEvent(c)
    BY <1>1, <1>2, <1>4, <1>5, <1>8, <1>9 DEF Sent, NoEvent
  <1> QED BY <1>1, <1>10, <1>11, <1>12

LEMMA BindEffect ==
    ASSUME StreamInv, Depth = 1, PreparedRecorded, NEW c \in Conns, Recorded(c), NEW n \in Names, Bind(c, n)
    PROVE  LET info == sp[c].parsed[n]
               seen == sp[c].client = "typed" /\ info # None
           IN  /\ Sent(c, "bind", n, IF seen THEN info.sql ELSE None)
               /\ n \in believes[c]
               /\ srv[c].prep[n] # None /\ "begin" \in Range(srv[c].prep[n]) => srv[c].status = "Idle"
               /\ IF seen THEN info.sql \in Texts /\ info.sql \in Prepared /\ EventMade(c, info.sql) ELSE NoEvent(c)
               /\ sp'[c].parsed = sp[c].parsed
               /\ copyIn'[c] = None
  <1> DEFINE p    == Observed(c)
             info == p.parsed[n]
             seen == p.client = "typed" /\ info # None
             d    == dispatch(p, info.sql)
             z    == OnClientQuery(d)
             yes  == Command("bind", n, info.sql, p, TRUE, info.owner)
             no   == Command("bind", n, None, p, FALSE, srv[c].owner)
  <1>1. /\ tcp[c] = "ready" /\ Len(sending[c]) < Depth /\ copyIn[c] = None
        /\ sp'[c] = IF seen THEN z ELSE p
        /\ sending'[c] = Append(sending[c], IF seen THEN yes ELSE no)
        /\ UNCHANGED <<cfg, tcp, srv, believes, copyIn>>
    BY BindStep, Zenon
  <1>2. /\ n \in believes[c]
        /\ counter' = IF seen /\ Advances(p, info.sql) THEN counter + 1 ELSE counter
        /\ UNCHANGED history
        /\ srv[c].prep[n] # None /\ "begin" \in Range(srv[c].prep[n]) => srv[c].status = "Idle"
    BY DEF Bind, MaySend, OnBind, hist, history
  <1>3. /\ p \in ConnStates /\ counter \in Nat
        /\ p.client = IF sp[c].client = "typed" THEN "typed" ELSE "stuck"
        /\ p.sm = sp[c].sm /\ p.txid = sp[c].txid /\ p.parsed = sp[c].parsed
    BY TypeFacts, ObservedFacts DEF Observed, StreamInv
  <1>4. info = sp[c].parsed[n] /\ (seen <=> sp[c].client = "typed" /\ sp[c].parsed[n] # None)
    BY <1>3
  <1> HIDE DEF p, info
  <1>5. CASE seen
    <2>1. KnownAt(c, n)
      BY <1>4, <1>5 DEF Recorded, Known
    <2>2. info.sql \in Texts /\ info.sql \in Prepared /\ ~Resets(info.sql)
      BY <1>4, <2>1 DEF KnownAt, Resets, PreparedRecorded, ParseInfos
    <2>3. /\ d \in ConnStates /\ d.client = p.client
          /\ ~Resets(info.sql) => /\ d.parsed = p.parsed
                                  /\ d.txid = IF Classify(info.sql) = "CommitRollback" THEN 0 ELSE TxIDFor(p, info.sql)
      BY <1>3, <2>2, DispatchFacts
    <2> HIDE DEF d
    <2>4. z.client = d.client /\ z.txid = d.txid /\ z.parsed = d.parsed
      BY <2>3, TimerFacts
    <2> HIDE DEF z
    <2>5. sending[c] = <<>> /\ sending'[c] # <<>> /\ Head(sending'[c]) = yes
      BY <1>1, <1>5, FirstCommand
    <2>6. /\ yes.kind = "bind" /\ yes.name = n /\ yes.sql = info.sql
          /\ yes.seen /\ yes.event = info.sql /\ yes.txid = TxIDFor(p, info.sql)
          /\ yes.kept <=> Decide(cfg.mode, info.sql, p.sm) = Keep
      <3> DEFINE b == TRUE
                 y == Command("bind", n, info.sql, p, b, info.owner)
      <3>1. y = yes /\ b \in BOOLEAN
        OBVIOUS
      <3>2. /\ y.kind = "bind" /\ y.name = n /\ y.sql = info.sql /\ (y.seen <=> b)
            /\ y.event = IF b THEN info.sql ELSE None
            /\ y.txid = IF b THEN TxIDFor(p, info.sql) ELSE 0
            /\ y.kept <=> b /\ Decide(cfg.mode, info.sql, p.sm) = Keep
        <4> HIDE DEF b
        <4> QED BY <3>1, CommandFacts
      <3> HIDE DEF y, yes
      <3> QED BY <3>1, <3>2
    <2>7. TxIDFor(p, info.sql) = TxIDFor(sp[c], info.sql) /\ (Advances(p, info.sql) <=> Advances(sp[c], info.sql))
      BY <1>3, SameTxID
    <2> HIDE DEF yes, no
    <2>8. sp'[c] = z /\ sp[c].client = "typed" /\ p.client = "typed"
      BY <1>1, <1>3, <1>4, <1>5
    <2>9. counter' = IF Advances(sp[c], info.sql) THEN counter + 1 ELSE counter
      BY <1>2, <1>5, <2>7
    <2> HIDE DEF seen
    <2>10. EventMade(c, info.sql)
      BY <1>3, <2>2, <2>3, <2>4, <2>5, <2>6, <2>7, <2>8, <2>9 DEF EventMade
    <2>11. Sent(c, "bind", n, info.sql)
      BY <1>1, <1>2, <2>3, <2>4, <2>5, <2>6, <2>8 DEF Sent
    <2>12. sp'[c].parsed = sp[c].parsed
      BY <1>3, <2>2, <2>3, <2>4, <2>8
    <2> QED BY <1>1, <1>2, <1>4, <1>5, <2>2, <2>10, <2>11, <2>12
  <1>6. CASE ~seen
    <2>1. sp'[c] = p
      BY <1>1, <1>6
    <2>2. sending[c] = <<>> /\ sending'[c] # <<>> /\ Head(sending'[c]) = no
      BY <1>1, <1>6, FirstCommand
    <2>3. no.kind = "bind" /\ no.name = n /\ no.sql = None /\ ~no.seen /\ ~no.kept
      BY UnseenCommand, ZenonT(60)
    <2> HIDE DEF yes, no, z, d
    <2>4. counter' = counter
      BY <1>2, <1>6
    <2> HIDE DEF seen
    <2>5. NoEvent(c) /\ Sent(c, "bind", n, None)
      BY <1>1, <1>2, <1>3, <2>1, <2>2, <2>3, <2>4 DEF Sent, NoEvent
    <2>6. sp'[c].parsed = sp[c].parsed
      BY <1>3, <2>1
    <2> QED BY <1>1, <1>2, <1>4, <1>6, <2>5, <2>6
  <1> QED BY <1>5, <1>6

\* The end of a COPY: an event is made of the buffer, or none is.
CopyEvent(c) ==
    /\ sp[c].client = "typed" /\ sp[c].copy # None
    /\ sp[c].copy \in CopyBuffers /\ Classify(sp[c].copy.sql) = "CopyFrom"
    /\ sp'[c].txid = TxIDFor(sp[c], sp[c].copy.sql)
    /\ counter' = IF Advances(sp[c], sp[c].copy.sql) THEN counter + 1 ELSE counter
    /\ sending[c] # <<>> => /\ Head(sending'[c]).seen /\ Head(sending'[c]).event = sp[c].copy.sql
                            /\ Head(sending'[c]).txid = sp'[c].txid
NoCopyEvent(c) ==
    /\ sp'[c].txid = sp[c].txid /\ counter' = counter
    /\ sending[c] # <<>> => /\ Head(sending'[c]).seen = Head(sending[c]).seen
                            /\ Head(sending'[c]).event = Head(sending[c]).event
                            /\ Head(sending'[c]).kept = Head(sending[c]).kept
                            /\ Head(sending'[c]).txid = Head(sending[c]).txid

LEMMA CopyDoneEffect ==
    ASSUME StreamInv, NEW c \in Conns, Tracks(c), CopyDone(c)
    PROVE  /\ sp'[c].client = "typed" <=> sp[c].client = "typed"
           /\ sp'[c].parsed = sp[c].parsed
           /\ copyIn[c] # None /\ copyIn'[c] = None
           /\ UNCHANGED <<cfg, tcp, srv, believes, history>>
           /\ sending[c] = <<>> => sending'[c] = <<>>
           /\ sending[c] # <<>> => /\ sending'[c] # <<>>
                                   /\ Head(sending'[c]).kind = Head(sending[c]).kind
                                   /\ Head(sending'[c]).sql = Head(sending[c]).sql
                                   /\ Head(sending[c]).kind \in {"query", "reset"}
                                   /\ Head(sending[c]).sql \in Texts /\ Streams(Head(sending[c]).sql)
           /\ CopyEvent(c) \/ NoCopyEvent(c)
  <1> DEFINE p    == Observed(c)
             done == p.client = "typed" /\ CopyComplete(p.copy)
             q    == [p EXCEPT !.copy = None]
             cmd  == Command(sending[c][1].kind, None, p.copy.sql, q, TRUE, srv[c].owner)
             z    == dispatch(q, p.copy.sql)
             e1   == [cmd EXCEPT !.sql = sending[c][1].sql, !.ended = TRUE,
                                 !.sent = copyIn[c], !.data = p.copy.data]
             e2   == [sending[c][1] EXCEPT !.ended = TRUE]
  <1>1. /\ copyIn[c] # None /\ copyIn'[c] = None
        /\ done => p.copy \in CopyBuffers
        /\ sp'[c] = IF p.client # "typed" THEN p ELSE IF done THEN z ELSE q
        /\ sending[c] = <<>> => sending'[c] = <<>>
        /\ UNCHANGED <<cfg, tcp, srv, believes>>
    BY CopyDoneStep, Zenon
  <1>2. sending[c] # <<>> =>
           /\ sending[c][1] \in Formed /\ sending[c][1].kind \in {"query", "reset"} /\ Streams(sending[c][1].sql)
           /\ sending'[c] = IF done THEN <<e1>> ELSE <<e2>>
    BY CopyDoneStep, Zenon
  <1>3. /\ counter' = IF done /\ Advances(q, p.copy.sql) THEN counter + 1 ELSE counter
        /\ UNCHANGED history
    BY DEF CopyDone, hist, history
  <1>4. /\ p \in ConnStates /\ counter \in Nat
        /\ p.client = IF sp[c].client = "typed" THEN "typed" ELSE "stuck"
        /\ p.txid = sp[c].txid /\ p.parsed = sp[c].parsed /\ p.copy = sp[c].copy
    BY TypeFacts, ObservedFacts DEF Observed, StreamInv
  <1> HIDE DEF p
  <1>5. done => /\ p.copy # None /\ p.copy.sql \in Texts
                /\ Classify(p.copy.sql) = "CopyFrom" /\ ~Resets(p.copy.sql)
    BY <1>1, <1>4 DEF CopyBuffers, Tracks, CopyClass, CopyComplete, Resets
  <1>6. q \in ConnStates /\ q.client = p.client /\ q.parsed = p.parsed /\ q.txid = p.txid
    BY <1>4, CopyUpdateFacts
  <1>7. TxIDFor(q, p.copy.sql) = TxIDFor(sp[c], p.copy.sql)
        /\ (Advances(q, p.copy.sql) <=> Advances(sp[c], p.copy.sql))
    BY <1>4, <1>6, SameTxID
  <1> HIDE DEF q
  <1>8. done => z.client = q.client /\ z.parsed = q.parsed /\ z.txid = TxIDFor(sp[c], p.copy.sql)
    <2> SUFFICES ASSUME done PROVE z.client = q.client /\ z.parsed = q.parsed /\ z.txid = TxIDFor(sp[c], p.copy.sql)
      OBVIOUS
    <2>1. /\ z.client = q.client
          /\ ~Resets(p.copy.sql)
                => /\ z.parsed = q.parsed
                   /\ z.txid = IF Classify(p.copy.sql) = "CommitRollback" THEN 0 ELSE TxIDFor(q, p.copy.sql)
      BY <1>4, <1>5, <1>6, DispatchFacts
    <2> HIDE DEF z
    <2> QED BY <1>5, <1>7, <2>1
  <1>9. sending[c] # <<>> => /\ Head(sending[c]) = sending[c][1] /\ sending[c][1] \in Commands
                             /\ sending[c][1].sql \in Texts
    <2>1. sending[c] # <<>> => Head(sending[c]) = sending[c][1]
      OBVIOUS
    <2> QED BY <1>2, <2>1 DEF Formed
  <1>10. /\ e1.kind = sending[c][1].kind /\ e1.sql = sending[c][1].sql
         /\ e1.event = p.copy.sql /\ e1.txid = TxIDFor(q, p.copy.sql)
    BY DEF Command
  <1>11. e1.seen = TRUE
    BY DEF Command
  <1>12. sending[c] # <<>> => /\ e2.kind = sending[c][1].kind /\ e2.sql = sending[c][1].sql
                              /\ e2.seen = sending[c][1].seen /\ e2.event = sending[c][1].event
                              /\ e2.kept = sending[c][1].kept /\ e2.txid = sending[c][1].txid
    BY <1>9 DEF Commands
  <1>13. done => p.client = "typed"
    OBVIOUS
  <1> HIDE DEF done, z, cmd, e1, e2
  <1>14. (sp'[c].client = "typed" <=> sp[c].client = "typed") /\ sp'[c].parsed = sp[c].parsed
    BY <1>1, <1>4, <1>6, <1>8
  <1>15. CASE done
    <2>1. sp'[c] = z /\ sp[c].client = "typed"
      BY <1>1, <1>4, <1>13, <1>15
    <2>2. counter' = IF Advances(sp[c], sp[c].copy.sql) THEN counter + 1 ELSE counter
      BY <1>3, <1>4, <1>7, <1>15
    <2>3. sending[c] # <<>> => sending'[c] # <<>> /\ Head(sending'[c]) = e1
      BY <1>2, <1>15
    <2>4. CopyEvent(c)
      BY <1>1, <1>4, <1>5, <1>7, <1>8, <1>10, <1>11, <1>15, <2>1, <2>2, <2>3 DEF CopyEvent
    <2> QED BY <1>1, <1>2, <1>3, <1>9, <1>10, <1>14, <2>3, <2>4
  <1>16. CASE ~done
    <2>1. sp'[c].txid = sp[c].txid /\ counter' = counter
      BY <1>1, <1>3, <1>4, <1>6, <1>16
    <2>2. sending[c] # <<>> => sending'[c] = <<e2>>
      BY <1>2, <1>16
    <2>3. sending[c] # <<>> => sending'[c] # <<>> /\ Head(sending'[c]) = e2
      BY <2>2
    <2>4. NoCopyEvent(c)
      BY <1>9, <1>12, <2>1, <2>3 DEF NoCopyEvent
    <2> QED BY <1>1, <1>2, <1>3, <1>9, <1>12, <1>14, <2>3, <2>4
  <1> QED BY <1>15, <1>16

\* CopyData, CopyFail and CopyStop.
LEMMA CopyEffect ==
    ASSUME StreamInv, NEW c \in Conns, CopyData(c) \/ CopyFail(c) \/ CopyStop(c)
    PROVE  /\ sp'[c].client = "typed" <=> sp[c].client = "typed"
           /\ sp'[c].parsed = sp[c].parsed /\ sp'[c].txid = sp[c].txid
           /\ UNCHANGED <<cfg, counter, tcp, srv, sending, believes, history>>
           /\ copyIn'[c] # None /\ sp[c].client = "typed" /\ sp'[c].copy # None
                 => copyIn[c] # None /\ sp[c].copy # None /\ sp'[c].copy.sql = sp[c].copy.sql
  <1> DEFINE p == Observed(c)
  <1>t. /\ p \in ConnStates
        /\ p.client = IF sp[c].client = "typed" THEN "typed" ELSE "stuck"
        /\ p.copy = sp[c].copy /\ p.parsed = sp[c].parsed /\ p.txid = sp[c].txid
    BY TypeFacts, ObservedFacts DEF Observed, StreamInv
  <1>1. CASE CopyData(c)
    <2> DEFINE k == CopyAppend(p.copy)
               z == [p EXCEPT !.copy = k]
    <2>1. /\ copyIn[c] # None
          /\ sp'[c] = IF p.client = "typed" THEN z ELSE p
          /\ UNCHANGED <<cfg, counter, tcp, srv, sending, believes>>
      BY <1>1, CopyDataStep, Zenon
    <2>h. UNCHANGED history
      BY <1>1 DEF CopyData, hist, history
    <2> HIDE DEF p
    <2>2. p.copy \in CopyBuffers \union {None}
      BY <1>t DEF ConnStates
    <2>3. k \in CopyBuffers \union {None}
      BY <2>2, CopyAppendType
    <2>4. k # None => p.copy # None /\ k.sql = p.copy.sql
      <3>1. p.copy # None => p.copy \in CopyBuffers
        BY <2>2
      <3> QED BY <3>1 DEF CopyAppend, CopyBuffers
    <2> HIDE DEF k
    <2>5. z.copy = k /\ z.client = p.client /\ z.parsed = p.parsed /\ z.txid = p.txid
      BY <1>t, <2>3, CopyUpdateFacts
    <2> HIDE DEF z
    <2> QED BY <1>t, <2>1, <2>h, <2>4, <2>5
  <1>2. CASE CopyFail(c)
    <2> DEFINE z == [p EXCEPT !.copy = None]
    <2>1. /\ copyIn[c] # None /\ copyIn'[c] = None
          /\ sp'[c] = IF p.client = "typed" THEN z ELSE p
          /\ UNCHANGED <<cfg, counter, tcp, srv, sending, believes>>
      BY <1>2, CopyFailStep, Zenon
    <2>h. UNCHANGED history
      BY <1>2 DEF CopyFail, hist, history
    <2> HIDE DEF p
    <2>5. z.copy = None /\ z.client = p.client /\ z.parsed = p.parsed /\ z.txid = p.txid
      BY <1>t, CopyUpdateFacts
    <2> HIDE DEF z
    <2> QED BY <1>t, <2>1, <2>h, <2>5
  <1>3. CASE CopyStop(c)
    <2>1. UNCHANGED history
      BY <1>3 DEF CopyStop, hist, history
    <2>2. copyIn'[c] = None /\ UNCHANGED <<cfg, counter, sp, tcp, srv, sending, believes>>
      BY <1>3, CopyStopStep
    <2> QED BY <2>1, <2>2
  <1> QED BY <1>1, <1>2, <1>3

LEMMA ConnectionEffect ==
    ASSUME StreamInv, NEW c \in Conns, Connect(c) \/ RefuseSSL(c) \/ Cancel(c)
    PROVE  /\ sp'[c].client = "typed" <=> sp[c].client = "typed"
           /\ sp'[c].parsed = sp[c].parsed /\ sp'[c].txid = sp[c].txid /\ sp'[c].copy = sp[c].copy
           /\ tcp[c] # "ready" /\ tcp'[c] # "ready"
           /\ UNCHANGED <<cfg, counter, srv, sending, copyIn, believes, history>>
  <1> DEFINE m == parsersFor(sp[c])
  <1>t. /\ m \in ConnStates
        /\ m.client = IF sp[c].client = "none" THEN "startup" ELSE sp[c].client
        /\ m.parsed = sp[c].parsed /\ m.txid = sp[c].txid /\ m.copy = sp[c].copy
    BY TypeFacts, ParsersFacts DEF StreamInv
  <1>h. UNCHANGED history
    BY DEF Connect, RefuseSSL, Cancel, Open, hist, history
  <1>1. CASE Connect(c)
    BY <1>1, <1>h, ConnectStep
  <1>2. CASE RefuseSSL(c)
    <2>1. sp'[c] = [m EXCEPT !.server = "stuck"] /\ tcp[c] = "startup"
          /\ UNCHANGED <<cfg, counter, tcp, srv, sending, copyIn, believes>>
      BY <1>2, RefuseSSLStep, Zenon
    <2> HIDE DEF m
    <2>2. sp'[c].client = m.client /\ sp'[c].parsed = m.parsed /\ sp'[c].txid = m.txid /\ sp'[c].copy = m.copy
      BY <1>t, <2>1 DEF ConnStates
    <2> QED BY <1>t, <1>h, <2>1, <2>2
  <1>3. CASE Cancel(c)
    <2>1. sp'[c] = m /\ tcp[c] = "startup" /\ tcp'[c] = "cancelling"
          /\ UNCHANGED <<cfg, counter, srv, sending, copyIn, believes>>
      BY <1>3, CancelStep, Zenon
    <2> HIDE DEF m
    <2> QED BY <1>t, <1>h, <2>1
  <1> QED BY <1>1, <1>2, <1>3

LEMMA StartupEffect ==
    ASSUME StreamInv, NEW c \in Conns, Startup(c)
    PROVE  /\ sp'[c].parsed = sp[c].parsed /\ sp'[c].txid = sp[c].txid
           /\ tcp[c] # "ready" /\ tcp'[c] = "ready"
           /\ UNCHANGED <<cfg, counter, srv, sending, copyIn, believes, history>>
  <1> DEFINE m == parsersFor(sp[c])
             w == [m EXCEPT !.client = "typed"]
             z == onReady(w, "Idle")
  <1>1. m \in ConnStates /\ m.parsed = sp[c].parsed /\ m.txid = sp[c].txid
    BY TypeFacts, ParsersFacts DEF StreamInv
  <1>2. UNCHANGED history
    BY DEF Startup, Open, hist, history
  <1>3. sp'[c] = z /\ tcp[c] = "startup" /\ tcp'[c] = "ready"
        /\ UNCHANGED <<cfg, counter, srv, sending, copyIn, believes>>
    BY StartupStep, Zenon
  <1> HIDE DEF m
  <1>4. w \in ConnStates /\ w.parsed = m.parsed /\ w.txid = m.txid
    BY <1>1 DEF ConnStates
  <1> HIDE DEF w
  <1>5. "Idle" \in Status
    BY DEF Status
  <1>6. z.parsed = w.parsed /\ z.txid = w.txid
    BY <1>4, <1>5, ReadyFacts
  <1> HIDE DEF z
  <1> QED BY <1>1, <1>2, <1>3, <1>4, <1>6

\* The names the client expects after an answer that leaves prep.
BelievesAfter(c, cmd, prep) ==
    IF cmd.kind = "reset" THEN Names
    ELSE IF prep # srv[c].prep \/ cmd.kind = "parse" THEN {n \in Names : prep[n] # None} ELSE believes[c]

\* The answer to the only command.
LEMMA ReplyEffect ==
    ASSUME StreamInv, NEW c \in Conns, Tracks(c), NEW e, Reply(c, e)
    PROVE  LET cmd  == Head(sending[c])
               run  == Runs(cmd, srv[c], e)
               prep == PrepAfter(cmd, srv[c], run)
               used == blocks[c] \union (IF cmd.kept THEN {cmd.txid} ELSE {})
           IN  /\ cmd \in Formed /\ run \in Outcomes /\ sending[c] # <<>> /\ sending'[c] = <<>>
               /\ tcp[c] = "ready" /\ UNCHANGED <<cfg, counter, tcp, copyIn>>
               /\ cmd.kind = "reset" => ~run.halted
               /\ srv'[c].status = run.status /\ srv'[c].prep = prep
               /\ sp'[c].client = "typed" <=> sp[c].client = "typed"
               /\ sp'[c].parsed = sp[c].parsed /\ sp'[c].txid = sp[c].txid
               /\ believes'[c] = BelievesAfter(c, cmd, prep)
               /\ shadow'[c] = IF cmd.kept THEN Execute(cmd.event, shadow[c], e).status ELSE shadow[c]
               /\ strayed'[c] <=> strayed[c] \/ (~cmd.kept /\ run.halted)
               /\ blocks'[c] = IF srv[c].status = "Idle" /\ run.status = "Idle" THEN blocks[c]
                               ELSE IF run.status = "Idle" THEN {} ELSE used
               /\ past' = IF srv[c].status # "Idle" /\ run.status = "Idle" THEN past \union used ELSE past
  <1> DEFINE cmd  == Head(sending[c])
             run  == Runs(cmd, srv[c], e)
             prep == PrepAfter(cmd, srv[c], run)
             used == blocks[c] \union (IF cmd.kept THEN {cmd.txid} ELSE {})
             m == parsersFor(sp[c])
             z == onReady(m, run.status)
  <1>1. /\ cmd \in Formed /\ run \in Outcomes
        /\ cmd.kind = "reset" => ~run.halted
        /\ srv'[c].status = run.status /\ srv'[c].prep = prep
        /\ sp'[c] = z
        /\ UNCHANGED <<cfg, counter, tcp, copyIn>>
    BY ReplyStep, Zenon
  <1>2. sending[c] # <<>> /\ sending'[c] = <<>>
    BY LastReply
  <1>3. tcp[c] = "ready"
    BY <1>2 DEF Tracks, Quiet
  <1>4. believes'[c] = BelievesAfter(c, cmd, prep)
    <2>1. c \in DOMAIN believes
      BY DEF StreamInv, TypeOK
    <2>2. believes' = [believes EXCEPT ![c] = IF cmd.kind = "reset" THEN Names
                                              ELSE IF prep # srv[c].prep \/ cmd.kind = "parse"
                                                   THEN {n \in Names : prep[n] # None} ELSE @]
      BY DEF Reply
    <2> HIDE DEF cmd, run, prep
    <2> QED BY <2>1, <2>2 DEF BelievesAfter
  <1>5. shadow'[c] = IF cmd.kept THEN Execute(cmd.event, shadow[c], e).status ELSE shadow[c]
    <2>1. c \in DOMAIN shadow
      BY DEF StreamInv, TypeOK
    <2>2. shadow' = [shadow EXCEPT ![c] = IF cmd.kept THEN Execute(cmd.event, @, e).status ELSE @]
      BY DEF Reply
    <2> HIDE DEF cmd
    <2> QED BY <2>1, <2>2
  <1>6. strayed'[c] <=> strayed[c] \/ (~cmd.kept /\ run.halted)
    <2>1. c \in DOMAIN strayed
      BY DEF StreamInv, TypeOK
    <2>2. strayed' = [strayed EXCEPT ![c] = @ \/ (~cmd.kept /\ run.halted)]
      BY DEF Reply
    <2> HIDE DEF cmd, run
    <2>3. strayed'[c] = (strayed[c] \/ (~cmd.kept /\ run.halted))
      BY <2>1, <2>2, Zenon
    <2> QED BY <2>3
  <1>7. /\ blocks'[c] = IF srv[c].status = "Idle" /\ run.status = "Idle" THEN blocks[c]
                        ELSE IF run.status = "Idle" THEN {} ELSE used
        /\ past' = IF srv[c].status # "Idle" /\ run.status = "Idle" THEN past \union used ELSE past
    <2>1. c \in DOMAIN blocks
      BY DEF StreamInv, TypeOK
    <2>2. /\ blocks' = [blocks EXCEPT ![c] = IF srv[c].status = "Idle" /\ run.status = "Idle" THEN @
                                             ELSE IF run.status = "Idle" THEN {} ELSE used]
          /\ past' = IF srv[c].status # "Idle" /\ run.status = "Idle" THEN past \union used ELSE past
      BY DEF Reply
    <2> HIDE DEF cmd, run, used
    <2> QED BY <2>1, <2>2
  <1> HIDE DEF run
  <1>8. run.status \in Status
    BY <1>1 DEF Outcomes
  <1>9. /\ m \in ConnStates /\ m.parsed = sp[c].parsed /\ m.txid = sp[c].txid
        /\ m.client = IF sp[c].client = "none" THEN "startup" ELSE sp[c].client
    BY TypeFacts, ParsersFacts DEF StreamInv
  <1> HIDE DEF m
  <1>10. z.parsed = m.parsed /\ z.txid = m.txid /\ z.client = m.client
    BY <1>8, <1>9, ReadyFacts
  <1> HIDE DEF z, prep, used, cmd
  <1>11. /\ sp'[c].client = "typed" <=> sp[c].client = "typed"
         /\ sp'[c].parsed = sp[c].parsed /\ sp'[c].txid = sp[c].txid
    BY <1>1, <1>9, <1>10
  <1> QED BY <1>1, <1>2, <1>3, <1>4, <1>5, <1>6, <1>7, <1>11 DEF cmd, run, prep, used

----------------------------------------------------------------------------
(***************************************************************************)
(* The text of an event is the text the server runs.                       *)
(***************************************************************************)
ResetsDeallocate == \A sql \in ResetQueries : Deallocates(sql)

\* A connection that is not set up has prepared nothing.
Unset(c) == tcp[c] # "ready" => srv[c].prep = NoStatements /\ sp[c].client # "typed"
\* What the server has prepared was recorded.
PrepKnown(c) ==
    sp[c].client = "typed" /\ cfg.extended /\ ~Answering(c, "reset")
       => \A n \in Names : srv[c].prep[n] # None => sp[c].parsed[n] # None
\* What was recorded and the client expects, the server has prepared.
Believed(c) ==
    sp[c].client = "typed"
       => \A n \in believes[c] : sp[c].parsed[n] # None /\ ~ParsesNow(c, n) => srv[c].prep[n] # None
BoundKnown(c) ==
    Answering(c, "bind")
       => /\ Head(sending[c]).seen => srv[c].prep[Head(sending[c]).name] = Head(sending[c]).sql
          /\ ~Head(sending[c]).seen /\ sp[c].client = "typed" /\ cfg.extended
                => srv[c].prep[Head(sending[c]).name] = None
\* Until the server answers, the buffer is of the COPY under way.
BufferFor(c) ==
    sp[c].client = "typed" /\ sp[c].copy # None /\ copyIn[c] # None /\ sending[c] # <<>>
       => sp[c].copy.sql = Head(sending[c]).sql
EventText(c) ==
    sending[c] # <<>> /\ Head(sending[c]).seen
       => Head(sending[c]).kind # "parse" /\ Head(sending[c]).event = Head(sending[c]).sql

\* A Parse that is not answered is recorded, and a reset drops what is prepared.
SentKnown(c) ==
    /\ Answering(c, "reset") => Deallocates(Head(sending[c]).sql)
    /\ Answering(c, "parse") /\ sp[c].client = "typed" /\ cfg.extended
          => sp[c].parsed[Head(sending[c]).name] # None

Served(c) == /\ Unset(c) /\ PrepKnown(c) /\ Believed(c) /\ SentKnown(c)
             /\ BoundKnown(c) /\ BufferFor(c) /\ EventText(c)

\* A step that changes neither the session nor what is recorded of it.
LEMMA ServedKeep ==
    ASSUME NEW c \in Conns, Served(c),
           srv'[c] = srv[c], sending'[c] = sending[c], believes'[c] = believes[c], copyIn'[c] = copyIn[c],
           cfg' = cfg, tcp'[c] # "ready" => tcp[c] # "ready",
           sp'[c].client = "typed" <=> sp[c].client = "typed",
           sp'[c].parsed = sp[c].parsed, sp'[c].copy = sp[c].copy
    PROVE  Served(c)'
  <1>1. Unset(c)' /\ PrepKnown(c)'
    BY DEF Served, Unset, PrepKnown, Answering
  <1>2. Believed(c)' /\ SentKnown(c)'
    BY DEF Served, Believed, SentKnown, ParsesNow, Answering
  <1>3. BoundKnown(c)' /\ BufferFor(c)' /\ EventText(c)'
    BY DEF Served, BoundKnown, BufferFor, EventText, Answering
  <1> QED BY <1>1, <1>2, <1>3 DEF Served

LEMMA ServedFrame ==
    ASSUME NEW c \in Conns, Others(c), cfg' = cfg, NEW d \in Conns, d # c, Served(d)
    PROVE  Served(d)'
  BY ServedKeep DEF Others

LEMMA ServedConnections ==
    ASSUME StreamInv, NEW c \in Conns, Tracks(c), Recorded(c), Served(c),
           Connect(c) \/ RefuseSSL(c) \/ Cancel(c) \/ Startup(c) \/ Fin(c) \/ Release(c)
    PROVE  Served(c)'
  <1>1. CASE Connect(c) \/ RefuseSSL(c) \/ Cancel(c)
    BY <1>1, ConnectionEffect, ServedKeep
  <1>2. CASE Startup(c)
    <2>1. /\ sp'[c].parsed = sp[c].parsed /\ tcp[c] # "ready" /\ tcp'[c] = "ready"
          /\ UNCHANGED <<cfg, srv, sending, copyIn, believes>>
      BY <1>2, StartupEffect
    <2>2. /\ srv[c].prep = NoStatements /\ sending[c] = <<>> /\ \A n \in Names : sp[c].parsed[n] = None
      BY <2>1 DEF Served, Unset, Tracks, Quiet, Recorded, Unframed
    <2>3. believes[c] \subseteq Names
      BY DEF StreamInv, TypeOK
    <2> QED BY <2>1, <2>2, <2>3
            DEF Served, Unset, PrepKnown, Believed, SentKnown, BoundKnown, BufferFor, EventText, Answering, NoStatements
  <1>3. CASE Fin(c)
    <2>1. sp'[c].client = "none" /\ srv'[c].prep = NoStatements /\ sending'[c] = <<>>
      BY <1>3, FinStep DEF Released, Session
    <2> QED BY <2>1 DEF Served, Unset, PrepKnown, Believed, SentKnown, BoundKnown, BufferFor, EventText, Answering
  <1>4. CASE Release(c)
    <2>1. sp'[c].client = "none" /\ UNCHANGED <<tcp, srv, sending>>
      BY <1>4, ReleaseStep DEF Released
    <2> QED BY <2>1 DEF Served, Unset, PrepKnown, Believed, SentKnown, BoundKnown, BufferFor, EventText, Answering
  <1> QED BY <1>1, <1>2, <1>3, <1>4

LEMMA ServedQuery ==
    ASSUME StreamInv, Depth = 1, CopiesRecognised, NEW c \in Conns, Served(c), NEW sql \in Texts, Query(c, sql)
    PROVE  Served(c)'
  <1>1. SimpleQuery(c, "query", sql) /\ ~Resets(sql)
    BY DEF Query, Resets
  <1>2. /\ Sent(c, "query", None, sql)
        /\ IF sp[c].client = "typed" /\ Dispatches(sql) THEN EventMade(c, sql) ELSE NoEvent(c)
        /\ sp'[c].parsed = sp[c].parsed
        /\ sp[c].client = "typed" /\ sql \notin Oversized /\ Classify(sql) = "CopyFrom"
              => sp'[c].copy = [sql |-> sql, data |-> 0, overflow |-> FALSE]
        /\ copyIn'[c] # None => Streams(sql)
    BY <1>1, QueryEffect
  <1>3. Unset(c)'
    BY <1>2 DEF Served, Unset, Sent
  <1>4. PrepKnown(c)' /\ Believed(c)'
    BY <1>2 DEF Served, PrepKnown, Believed, Sent, Answering, ParsesNow
  <1>5. BoundKnown(c)' /\ SentKnown(c)'
    BY <1>2 DEF BoundKnown, SentKnown, Sent, Answering
  <1>6. BufferFor(c)'
    <2>1. SUFFICES ASSUME sp'[c].client = "typed", copyIn'[c] # None PROVE sp'[c].copy.sql = Head(sending'[c]).sql
      BY DEF BufferFor
    <2>2. Streams(sql) /\ sp[c].client = "typed"
      BY <1>2, <2>1 DEF Sent
    <2>3. sp'[c].copy = [sql |-> sql, data |-> 0, overflow |-> FALSE]
      BY <1>2, <2>2 DEF CopiesRecognised
    <2>4. sp'[c].copy.sql = sql
      BY <2>3
    <2> QED BY <1>2, <2>4 DEF Sent
  <1>7. EventText(c)'
    BY <1>2 DEF EventText, Sent, EventMade, NoEvent
  <1> QED BY <1>3, <1>4, <1>5, <1>6, <1>7 DEF Served

LEMMA ServedPoolerReset ==
    ASSUME StreamInv, Depth = 1, CopiesRecognised, ResetsRecognised, ResetsDeallocate, NEW c \in Conns, Served(c),
           NEW sql \in ResetQueries, PoolerReset(c, sql)
    PROVE  Served(c)'
  <1>1. SimpleQuery(c, "reset", sql) /\ cfg.pooler /\ sql \in Texts
    BY DEF PoolerReset, Texts
  <1>2. /\ Sent(c, "reset", None, sql)
        /\ IF sp[c].client = "typed" /\ Dispatches(sql) THEN EventMade(c, sql) ELSE NoEvent(c)
        /\ sp'[c].parsed = IF sp[c].client = "typed" /\ Dispatches(sql) /\ Resets(sql)
                           THEN NoStatements ELSE sp[c].parsed
        /\ copyIn'[c] # None => Streams(sql)
    BY <1>1, QueryEffect
  <1>3. Dispatches(sql) /\ Resets(sql) /\ ~Streams(sql) /\ Deallocates(sql)
    BY <1>1 DEF ResetsRecognised, Dispatches, Resets, CopiesRecognised, ResetsDeallocate
  <1>4. Unset(c)' /\ PrepKnown(c)' /\ BoundKnown(c)' /\ BufferFor(c)' /\ SentKnown(c)'
    BY <1>2, <1>3 DEF Served, Unset, PrepKnown, BoundKnown, BufferFor, SentKnown, Sent, Answering
  <1>5. Believed(c)'
    <2>1. believes[c] \subseteq Names
      BY DEF StreamInv, TypeOK
    <2>2. sp[c].client = "typed" => \A n \in Names : sp'[c].parsed[n] = None
      BY <1>2, <1>3 DEF NoStatements
    <2> QED BY <1>2, <2>1, <2>2 DEF Believed, Sent
  <1>6. EventText(c)'
    BY <1>2 DEF EventText, Sent, EventMade, NoEvent
  <1> QED BY <1>4, <1>5, <1>6 DEF Served

LEMMA ServedParse ==
    ASSUME StreamInv, Depth = 1, PreparedRecorded, NEW c \in Conns, Served(c),
           NEW n \in Names, NEW sql \in Prepared, Parse(c, n, sql)
    PROVE  Served(c)'
  <1>1. sql \in Texts /\ sql \notin Oversized /\ believes[c] \subseteq Names
    BY DEF Texts, PreparedRecorded, StreamInv, TypeOK
  <1>2. /\ Sent(c, "parse", n, sql) /\ NoEvent(c) /\ copyIn'[c] = None
        /\ \A m \in Names : m # n => sp'[c].parsed[m] = sp[c].parsed[m]
        /\ sp[c].client = "typed" /\ cfg.extended => sp'[c].parsed[n] # None
    BY <1>1, ParseEffect
  <1>3. Unset(c)' /\ BoundKnown(c)' /\ BufferFor(c)' /\ EventText(c)'
    BY <1>2 DEF Served, Unset, BoundKnown, BufferFor, EventText, Sent, NoEvent, Answering
  <1>4. PrepKnown(c)' /\ SentKnown(c)'
    BY <1>2 DEF Served, PrepKnown, SentKnown, Sent, Answering
  <1>5. Believed(c)'
    BY <1>1, <1>2 DEF Served, Believed, Sent, Answering, ParsesNow
  <1> QED BY <1>3, <1>4, <1>5 DEF Served

LEMMA ServedBind ==
    ASSUME StreamInv, Depth = 1, PreparedRecorded, NEW c \in Conns, Recorded(c), Served(c),
           NEW n \in Names, Bind(c, n)
    PROVE  Served(c)'
  <1> DEFINE info == sp[c].parsed[n]
             seen == sp[c].client = "typed" /\ info # None
  <1>1. /\ Sent(c, "bind", n, IF seen THEN info.sql ELSE None)
        /\ n \in believes[c] /\ copyIn'[c] = None
        /\ IF seen THEN EventMade(c, info.sql) ELSE NoEvent(c)
        /\ sp'[c].parsed = sp[c].parsed
    BY BindEffect, Zenon
  <1>2. sending[c] = <<>>
    BY <1>1 DEF Sent
  <1>3. Unset(c)' /\ BufferFor(c)'
    BY <1>1 DEF Served, Unset, BufferFor, Sent
  <1>4. PrepKnown(c)' /\ Believed(c)' /\ SentKnown(c)'
    BY <1>1 DEF Served, PrepKnown, Believed, SentKnown, Sent, Answering, ParsesNow
  <1>5. seen => srv[c].prep[n] = info.sql
    <2> SUFFICES ASSUME seen PROVE srv[c].prep[n] = info.sql
      OBVIOUS
    <2>1. KnownAt(c, n)
      BY DEF Recorded, Known
    <2>2. srv[c].prep[n] \in {info.sql, None}
      BY <1>2, <2>1 DEF KnownAt, ParsesNow, Answering
    <2>3. srv[c].prep[n] # None
      BY <1>1, <1>2 DEF Served, Believed, ParsesNow, Answering
    <2> QED BY <2>2, <2>3
  <1>6. ~seen /\ sp[c].client = "typed" /\ cfg.extended => srv[c].prep[n] = None
    BY <1>2 DEF Served, PrepKnown, Answering
  <1> HIDE DEF info
  <1>7. CASE seen
    <2>1. Sent(c, "bind", n, info.sql) /\ EventMade(c, info.sql)
      BY <1>1, <1>7
    <2>2. BoundKnown(c)' /\ EventText(c)'
      BY <1>5, <1>7, <2>1 DEF BoundKnown, EventText, Sent, EventMade, Answering
    <2> QED BY <1>3, <1>4, <2>2 DEF Served
  <1>8. CASE ~seen
    <2>1. Sent(c, "bind", n, None) /\ NoEvent(c)
      BY <1>1, <1>8
    <2>2. BoundKnown(c)' /\ EventText(c)'
      BY <1>6, <1>8, <2>1 DEF BoundKnown, EventText, Sent, NoEvent, Answering
    <2> QED BY <1>3, <1>4, <2>2 DEF Served
  <1> QED BY <1>7, <1>8

LEMMA ServedCopy ==
    ASSUME StreamInv, NEW c \in Conns, Tracks(c), Served(c), CopyData(c) \/ CopyFail(c) \/ CopyStop(c) \/ CopyDone(c)
    PROVE  Served(c)'
  <1>1. CASE CopyData(c) \/ CopyFail(c) \/ CopyStop(c)
    <2>1. /\ sp'[c].client = "typed" <=> sp[c].client = "typed"
          /\ sp'[c].parsed = sp[c].parsed
          /\ UNCHANGED <<cfg, tcp, srv, sending, believes>>
          /\ copyIn'[c] # None /\ sp[c].client = "typed" /\ sp'[c].copy # None
                => copyIn[c] # None /\ sp[c].copy # None /\ sp'[c].copy.sql = sp[c].copy.sql
      BY <1>1, CopyEffect
    <2>2. Unset(c)' /\ PrepKnown(c)' /\ Believed(c)' /\ SentKnown(c)'
      BY <2>1 DEF Served, Unset, PrepKnown, Believed, SentKnown, Answering, ParsesNow
    <2>3. BoundKnown(c)' /\ BufferFor(c)' /\ EventText(c)'
      BY <2>1 DEF Served, BoundKnown, BufferFor, EventText, Answering
    <2> QED BY <2>2, <2>3 DEF Served
  <1>2. CASE CopyDone(c)
    <2>1. /\ sp'[c].client = "typed" <=> sp[c].client = "typed"
          /\ sp'[c].parsed = sp[c].parsed
          /\ copyIn[c] # None /\ copyIn'[c] = None
          /\ UNCHANGED <<cfg, tcp, srv, believes>>
          /\ sending[c] = <<>> => sending'[c] = <<>>
          /\ sending[c] # <<>> => /\ sending'[c] # <<>>
                                  /\ Head(sending'[c]).kind = Head(sending[c]).kind
                                  /\ Head(sending'[c]).sql = Head(sending[c]).sql
                                  /\ Head(sending[c]).kind \in {"query", "reset"}
          /\ CopyEvent(c) \/ NoCopyEvent(c)
      BY <1>2, CopyDoneEffect
    <2>2. Unset(c)' /\ PrepKnown(c)' /\ Believed(c)'
      BY <2>1 DEF Served, Unset, PrepKnown, Believed, Answering, ParsesNow
    <2>3. BoundKnown(c)' /\ BufferFor(c)' /\ SentKnown(c)'
      BY <2>1 DEF Served, SentKnown, BoundKnown, BufferFor, Answering
    <2>4. CASE CopyEvent(c)
      <3>2. sending[c] # <<>> => sp[c].copy.sql = Head(sending[c]).sql
        BY <2>1, <2>4 DEF Served, BufferFor, CopyEvent
      <3>3. EventText(c)'
        BY <2>1, <2>4, <3>2 DEF EventText, CopyEvent
      <3> QED BY <2>2, <2>3, <3>3 DEF Served
    <2>5. CASE NoCopyEvent(c)
      <3>1. EventText(c)'
        BY <2>1, <2>5 DEF Served, EventText, NoCopyEvent
      <3> QED BY <2>2, <2>3, <3>1 DEF Served
    <2> QED BY <2>1, <2>4, <2>5
  <1> QED BY <1>1, <1>2

LEMMA ServedReply ==
    ASSUME StreamInv, NEW c \in Conns, Tracks(c), Recorded(c), Served(c), NEW e, Reply(c, e)
    PROVE  Served(c)'
  <1> DEFINE cmd  == Head(sending[c])
             run  == Runs(cmd, srv[c], e)
             prep == PrepAfter(cmd, srv[c], run)
  <1>1. /\ cmd \in Formed /\ run \in Outcomes /\ sending[c] # <<>> /\ sending'[c] = <<>>
        /\ tcp[c] = "ready" /\ UNCHANGED <<cfg, counter, tcp, copyIn>>
        /\ cmd.kind = "reset" => ~run.halted
        /\ srv'[c].prep = prep
        /\ sp'[c].parsed = sp[c].parsed
    BY ReplyEffect, ZenonT(60)
  <1>c. sp'[c].client = "typed" <=> sp[c].client = "typed"
    BY ReplyEffect, ZenonT(60)
  <1>b. believes'[c] = BelievesAfter(c, cmd, prep)
    BY ReplyEffect, ZenonT(60)
  <1>2. srv[c].prep \in [Names -> SQLOrNone] /\ Unnamed \in Names /\ believes[c] \subseteq Names
    BY TypeFacts, StreamAssumption DEF StreamInv, TypeOK
  <1>3. prep = CASE cmd.kind = "parse" /\ ~run.halted -> [srv[c].prep EXCEPT ![cmd.name] = cmd.sql]
                 [] cmd.kind = "parse" /\ run.halted  -> [srv[c].prep EXCEPT ![Unnamed] = IF cmd.name = Unnamed THEN None ELSE @]
                 [] cmd.kind \in {"query", "reset"} /\ ~run.halted /\ Deallocates(cmd.sql) -> NoStatements
                 [] OTHER -> srv[c].prep
    BY DEF PrepAfter
  <1> HIDE DEF run, prep
  <1>4. run.halted \in BOOLEAN
    BY <1>1 DEF Outcomes
  <1>5. ASSUME NEW n \in Names, prep[n] # None
        PROVE  prep[n] = srv[c].prep[n] \/ ParsesNow(c, n)
    <2>1. CASE cmd.kind = "parse" /\ ~run.halted
      <3>1. prep = [srv[c].prep EXCEPT ![cmd.name] = cmd.sql]
        BY <1>3, <2>1
      <3> QED BY <1>1, <1>2, <2>1, <3>1 DEF ParsesNow, Answering
    <2>2. CASE cmd.kind = "parse" /\ run.halted
      <3>1. prep = [srv[c].prep EXCEPT ![Unnamed] = IF cmd.name = Unnamed THEN None ELSE @]
        BY <1>3, <2>2
      <3> QED BY <1>2, <1>5, <3>1
    <2>3. CASE cmd.kind # "parse"
      <3>1. prep = srv[c].prep \/ prep = NoStatements
        BY <1>3, <2>3
      <3> QED BY <1>5, <3>1 DEF NoStatements
    <2> QED BY <1>4, <2>1, <2>2, <2>3
  <1>6. PrepKnown(c)'
    <2>1. SUFFICES ASSUME sp'[c].client = "typed", cfg'.extended, NEW n \in Names, prep[n] # None
                   PROVE  sp[c].parsed[n] # None
      BY <1>1 DEF PrepKnown
    <2>2. sp[c].client = "typed" /\ cfg.extended
      BY <1>1, <1>c, <2>1
    <2>3. CASE ParsesNow(c, n)
      BY <2>2, <2>3 DEF Served, SentKnown, ParsesNow
    <2>4. CASE ~ParsesNow(c, n)
      <3>1. srv[c].prep[n] # None
        BY <1>5, <2>1, <2>4
      <3>2. cmd.kind # "reset"
        <4> SUFFICES ASSUME cmd.kind = "reset" PROVE FALSE
          OBVIOUS
        <4>1. Deallocates(cmd.sql) /\ ~run.halted
          BY <1>1 DEF Served, SentKnown, Answering
        <4>2. prep = NoStatements
          BY <1>3, <4>1
        <4> QED BY <2>1, <4>2 DEF NoStatements
      <3> QED BY <2>2, <3>1, <3>2 DEF Served, PrepKnown, Answering
    <2> QED BY <2>3, <2>4
  <1>7. Believed(c)'
    <2>1. SUFFICES ASSUME sp'[c].client = "typed", NEW n \in believes'[c], sp[c].parsed[n] # None
                   PROVE  prep[n] # None
      BY <1>1 DEF Believed
    <2>2. n \in Names
      BY <1>1, <1>b, <1>2 DEF BelievesAfter
    <2>3. cmd.kind # "reset"
      BY <1>1, <2>1, <2>2 DEF Recorded, Known, KnownAt, Answering
    <2>4. CASE prep # srv[c].prep \/ cmd.kind = "parse"
      BY <1>b, <2>3, <2>4 DEF BelievesAfter
    <2>5. CASE ~(prep # srv[c].prep \/ cmd.kind = "parse")
      <3>1. n \in believes[c] /\ prep = srv[c].prep /\ ~ParsesNow(c, n) /\ sp[c].client = "typed"
        BY <1>1, <1>b, <1>c, <2>1, <2>3, <2>5 DEF BelievesAfter, ParsesNow, Answering
      <3> QED BY <2>1, <3>1 DEF Served, Believed
    <2> QED BY <2>4, <2>5
  <1>8. Unset(c)' /\ SentKnown(c)' /\ BoundKnown(c)' /\ BufferFor(c)' /\ EventText(c)'
    BY <1>1 DEF Unset, SentKnown, BoundKnown, BufferFor, EventText, Answering
  <1> QED BY <1>6, <1>7, <1>8 DEF Served

LEMMA ServedStep ==
    ASSUME StreamInv, Depth = 1, CopiesRecognised, PreparedRecorded, ResetsRecognised, ResetsDeallocate,
           NEW c \in Conns, Tracks(c), Recorded(c), Served(c), Step(c)
    PROVE  Served(c)'
  <1>1. Queries \subseteq Texts
    BY DEF Texts
  <1>2. ASSUME NEW sql \in Queries, Query(c, sql) PROVE Served(c)'
    BY <1>1, <1>2, ServedQuery
  <1>3. ASSUME NEW sql \in ResetQueries, PoolerReset(c, sql) PROVE Served(c)'
    BY <1>3, ServedPoolerReset
  <1> QED BY <1>2, <1>3, ServedParse, ServedBind, ServedConnections, ServedCopy, ServedReply DEF Step

AllServed == \A c \in Conns : Served(c)

LEMMA InitServed == Init => AllServed
  <1> SUFFICES ASSUME Init, NEW c \in Conns PROVE Served(c)
    BY DEF AllServed
  <1>1. /\ sending[c] = <<>> /\ sp[c] = Released /\ srv[c] = Session(0) /\ believes[c] = {}
    BY DEF Init
  <1>2. sp[c].client = "none" /\ srv[c].prep = NoStatements
    BY <1>1 DEF Released, Session
  <1> QED BY <1>1, <1>2
          DEF Served, Unset, PrepKnown, Believed, SentKnown, BoundKnown, BufferFor, EventText, Answering

LEMMA NextServed ==
    ASSUME Depth = 1, CopiesRecognised, PreparedRecorded, ResetsRecognised, ResetsDeallocate
    PROVE  StreamInv /\ AllTrack /\ AllRecorded /\ AllServed /\ [Next]_vars => AllServed'
  <1> SUFFICES ASSUME StreamInv, AllTrack, AllRecorded, AllServed, [Next]_vars PROVE AllServed'
    OBVIOUS
  <1>1. CASE UNCHANGED vars
    <2> SUFFICES ASSUME NEW c \in Conns PROVE Served(c)'
      BY DEF AllServed
    <2>1. Served(c)
      BY DEF AllServed
    <2>2. UNCHANGED <<cfg, sp, tcp, srv, sending, copyIn, believes>>
      BY <1>1 DEF vars, env, hist
    <2> QED BY <2>1, <2>2, ServedKeep
  <1>2. CASE Next
    <2>1. PICK c \in Conns : Step(c)
      BY <1>2 DEF Next, Step
    <2>2. Served(c)'
      BY <2>1, ServedStep DEF AllTrack, AllRecorded, AllServed
    <2>3. ASSUME NEW d \in Conns, d # c PROVE Served(d)'
      BY <2>1, <2>3, StepFrame, ServedFrame DEF AllServed
    <2> QED BY <2>2, <2>3 DEF AllServed
  <1> QED BY <1>1, <1>2

----------------------------------------------------------------------------
(***************************************************************************)
(* The status of the shadow session.                                       *)
(***************************************************************************)
\* What the filter or the processor passes over carries no transaction control.
ControlReplayed ==
    \A sql \in Texts : sql \in Oversized \union Excluded \/ Classify(sql) \in {"Unknown", "PlainSelect", "CopyFrom"}
                          => Uncontrolled(sql)
\* The custom rules drop plain reads at most.
OverridesKeep == \A class \in DOMAIN Overrides \ {"PlainSelect"} : Overrides[class] = Rule(Keep, Keep)

Replays == cfg.extended /\ cfg.mode \in {"custom", "write_only", "all"}

\* In the modes that keep transaction control, only a plain read, a text of no
\* class and an excluded one are dropped.
LEMMA DecideKeeps ==
    ASSUME OverridesKeep, NEW mode \in {"custom", "write_only", "all"}, NEW sql, NEW status,
           sql \notin Excluded, Classify(sql) \notin {"Unknown", "PlainSelect"}
    PROVE  Decide(mode, sql, status) = Keep
  <1> DEFINE class == Classify(sql)
  <1>1. class \in RuleClasses
    BY ClassifyType DEF Classes
  <1>2. defaultRules[class] = Rule(Keep, Keep)
    BY <1>1 DEF defaultRules
  <1>3. resolveRules(mode)[class] = Rule(Keep, Keep)
    <2>1. CASE mode = "custom"
      <3>1. resolveRules(mode) = [k \in RuleClasses |-> IF k \in DOMAIN Overrides THEN Overrides[k]
                                                        ELSE defaultRules[k]]
        BY <2>1 DEF resolveRules
      <3>2. resolveRules(mode)[class] = IF class \in DOMAIN Overrides THEN Overrides[class] ELSE defaultRules[class]
        BY <1>1, <3>1
      <3> QED BY <1>2, <3>2 DEF OverridesKeep
    <2>2. CASE mode = "write_only"
      <3>1. resolveRules(mode) = [defaultRules EXCEPT !["PlainSelect"] = Rule(Drop, Drop)]
        BY <2>2 DEF resolveRules
      <3> QED BY <1>1, <1>2, <3>1 DEF defaultRules
    <2>3. CASE mode = "all"
      <3>1. resolveRules(mode) = [defaultRules EXCEPT !["PlainSelect"] = Rule(Keep, Keep)]
        BY <2>3 DEF resolveRules
      <3> QED BY <1>1, <1>2, <3>1 DEF defaultRules
    <2> QED BY <2>1, <2>2, <2>3
  <1>4. ruleAction(mode, class, status) = Keep
    <2>1. Rule(Keep, Keep).in = Keep /\ Rule(Keep, Keep).out = Keep
      BY DEF Rule
    <2> QED BY <1>3, <2>1 DEF ruleAction
  <1> QED BY <1>4 DEF Decide

LEMMA KeptOrPlain ==
    ASSUME OverridesKeep, ControlReplayed, Replays, NEW sql \in Texts, NEW status
    PROVE  Decide(cfg.mode, sql, status) = Keep \/ Uncontrolled(sql)
  BY DecideKeeps DEF ControlReplayed, Replays

\* A step on one connection leaves the history of the others alone.
LEMMA HistoryFrame ==
    ASSUME StreamInv, NEW c \in Conns, Step(c), NEW d \in Conns, d # c
    PROVE  shadow'[d] = shadow[d] /\ strayed'[d] = strayed[d] /\ blocks'[d] = blocks[d]
  <1>t. c \in DOMAIN shadow /\ c \in DOMAIN strayed /\ c \in DOMAIN blocks
    BY DEF StreamInv, TypeOK
  <1> DEFINE G == shadow'[d] = shadow[d] /\ strayed'[d] = strayed[d] /\ blocks'[d] = blocks[d]
  <1>1. ASSUME Fin(c) PROVE G
    BY <1>t, <1>1 DEF Fin
  <1>2. ASSUME NEW e, Reply(c, e) PROVE G
    <2>1. PICK x : shadow' = [shadow EXCEPT ![c] = x]
      BY <1>2 DEF Reply
    <2>2. PICK y : strayed' = [strayed EXCEPT ![c] = y]
      BY <1>2 DEF Reply
    <2>3. PICK z : blocks' = [blocks EXCEPT ![c] = z]
      BY <1>2 DEF Reply
    <2> QED BY <1>t, <2>1, <2>2, <2>3
  <1>3. ASSUME Connect(c) \/ RefuseSSL(c) \/ Cancel(c) \/ Startup(c) \/ Release(c) PROVE G
    BY <1>3 DEF Connect, RefuseSSL, Cancel, Startup, Release, Open, hist
  <1>4. ASSUME NEW sql \in Queries, Query(c, sql) PROVE G
    BY <1>4 DEF Query, SimpleQuery, hist
  <1>5. ASSUME NEW sql \in ResetQueries, PoolerReset(c, sql) PROVE G
    BY <1>5 DEF PoolerReset, SimpleQuery, hist
  <1>6. ASSUME NEW n \in Names, NEW sql \in Prepared, Parse(c, n, sql) PROVE G
    BY <1>6 DEF Parse
  <1>7. ASSUME NEW n \in Names, Bind(c, n) PROVE G
    BY <1>7 DEF Bind, hist
  <1>8. ASSUME CopyData(c) \/ CopyDone(c) \/ CopyFail(c) \/ CopyStop(c) PROVE G
    BY <1>8 DEF CopyData, CopyDone, CopyFail, CopyStop, hist
  <1> HIDE DEF G
  <1>9. G
    BY <1>1, <1>2, <1>3, <1>4, <1>5, <1>6, <1>7, <1>8 DEF Step
  <1> QED BY <1>9 DEF G

\* Nothing is replayed for a connection that is not set up.
ShadowUnset(c) == tcp[c] # "ready" => shadow[c] = "Idle"
\* Only a command without control is not replayed.
KeptControl(c) ==
    /\ sp[c].client = "typed" /\ Replays /\ sending[c] # <<>>
    /\ Head(sending[c]).kind # "parse" /\ (Head(sending[c]).kind = "bind" => Head(sending[c]).seen)
    => Head(sending[c]).kept \/ Uncontrolled(Head(sending[c]).sql)
\* ShadowFollowsSource at one connection.
FollowsAt(c) == sp[c].client = "typed" /\ ~strayed[c] /\ Replays => shadow[c] = srv[c].status

Mirrored(c) == ShadowUnset(c) /\ KeptControl(c) /\ FollowsAt(c)

LEMMA MirroredKeep ==
    ASSUME NEW c \in Conns, Mirrored(c),
           srv'[c] = srv[c], sending'[c] = sending[c], shadow'[c] = shadow[c], strayed'[c] = strayed[c],
           cfg' = cfg, tcp'[c] # "ready" => tcp[c] # "ready", sp'[c].client = "typed" <=> sp[c].client = "typed"
    PROVE  Mirrored(c)'
  BY DEF Mirrored, ShadowUnset, KeptControl, FollowsAt, Replays

LEMMA MirroredConnections ==
    ASSUME StreamInv, NEW c \in Conns, Tracks(c), Mirrored(c),
           Connect(c) \/ RefuseSSL(c) \/ Cancel(c) \/ Startup(c) \/ Fin(c) \/ Release(c)
    PROVE  Mirrored(c)'
  <1>1. CASE Connect(c) \/ RefuseSSL(c) \/ Cancel(c)
    BY <1>1, ConnectionEffect, MirroredKeep DEF history
  <1>2. CASE Startup(c)
    <2>1. /\ tcp[c] # "ready" /\ tcp'[c] = "ready"
          /\ UNCHANGED <<cfg, srv, sending>> /\ UNCHANGED history
      BY <1>2, StartupEffect
    <2>2. srv[c].status = "Idle" /\ sending[c] = <<>> /\ shadow[c] = "Idle"
      BY <2>1 DEF Mirrored, ShadowUnset, Tracks, Quiet
    <2> QED BY <2>1, <2>2 DEF Mirrored, ShadowUnset, KeptControl, FollowsAt, history
  <1>3. CASE Fin(c)
    <2>1. sp'[c].client = "none"
      BY <1>3, FinStep DEF Released
    <2>2. shadow'[c] = "Idle"
      BY <1>3 DEF Fin, StreamInv, TypeOK
    <2> QED BY <2>1, <2>2 DEF Mirrored, ShadowUnset, KeptControl, FollowsAt
  <1>4. CASE Release(c)
    <2>1. sp'[c].client = "none" /\ UNCHANGED tcp
      BY <1>4, ReleaseStep DEF Released
    <2>2. UNCHANGED shadow
      BY <1>4 DEF Release
    <2> QED BY <2>1, <2>2 DEF Mirrored, ShadowUnset, KeptControl, FollowsAt
  <1> QED BY <1>1, <1>2, <1>3, <1>4

\* A command that the processor passes over or sees, with nothing else on its way.
LEMMA MirroredSent ==
    ASSUME NEW c \in Conns, OverridesKeep, ControlReplayed, Mirrored(c), NEW kind, NEW n, NEW sql, Sent(c, kind, n, sql),
           \/ sql \in Texts /\ EventMade(c, sql)
           \/ NoEvent(c) /\ (kind \notin {"parse", "bind"} => Uncontrolled(sql) \/ sp[c].client # "typed")
    PROVE  Mirrored(c)'
  <1>1. ShadowUnset(c)' /\ FollowsAt(c)'
    BY DEF Mirrored, ShadowUnset, FollowsAt, Replays, Sent, history
  <1>2. CASE sql \in Texts /\ EventMade(c, sql)
    <2>1. KeptControl(c)'
      <3> SUFFICES ASSUME Replays' PROVE Head(sending'[c]).kept \/ Uncontrolled(sql)
        BY DEF KeptControl, Sent
      <3>1. Replays
        BY DEF Replays, Sent
      <3> QED BY <1>2, <3>1, KeptOrPlain DEF EventMade
    <2> QED BY <1>1, <2>1 DEF Mirrored
  <1>3. CASE NoEvent(c) /\ (kind \notin {"parse", "bind"} => Uncontrolled(sql) \/ sp[c].client # "typed")
    <2>1. KeptControl(c)'
      BY <1>3 DEF KeptControl, Sent, NoEvent
    <2> QED BY <1>1, <2>1 DEF Mirrored
  <1> QED BY <1>2, <1>3

LEMMA MirroredQuery ==
    ASSUME StreamInv, Depth = 1, OverridesKeep, ControlReplayed, NEW c \in Conns, Mirrored(c),
           NEW kind \in {"query", "reset"}, NEW sql \in Texts, SimpleQuery(c, kind, sql)
    PROVE  Mirrored(c)'
  <1>1. /\ Sent(c, kind, None, sql)
        /\ IF sp[c].client = "typed" /\ Dispatches(sql) THEN EventMade(c, sql) ELSE NoEvent(c)
    BY QueryEffect
  <1>2. ~Dispatches(sql) => Uncontrolled(sql)
    BY DEF Dispatches, ControlReplayed
  <1> QED BY <1>1, <1>2, MirroredSent

LEMMA MirroredBind ==
    ASSUME StreamInv, Depth = 1, PreparedRecorded, OverridesKeep, ControlReplayed,
           NEW c \in Conns, Recorded(c), Mirrored(c), NEW n \in Names, Bind(c, n)
    PROVE  Mirrored(c)'
  <1> DEFINE info == sp[c].parsed[n]
             seen == sp[c].client = "typed" /\ info # None
  <1>1. /\ Sent(c, "bind", n, IF seen THEN info.sql ELSE None)
        /\ IF seen THEN info.sql \in Texts /\ info.sql \in Prepared /\ EventMade(c, info.sql) ELSE NoEvent(c)
    BY BindEffect, Zenon
  <1> HIDE DEF info, seen
  <1>2. CASE seen
    <2>1. Sent(c, "bind", n, info.sql) /\ info.sql \in Texts /\ EventMade(c, info.sql)
      BY <1>1, <1>2
    <2> QED BY <2>1, MirroredSent
  <1>3. CASE ~seen
    <2>1. Sent(c, "bind", n, None) /\ NoEvent(c)
      BY <1>1, <1>3
    <2> QED BY <2>1, MirroredSent
  <1> QED BY <1>2, <1>3

LEMMA MirroredCopy ==
    ASSUME StreamInv, CopiesRecognised, ControlReplayed, NEW c \in Conns, Tracks(c), Mirrored(c),
           CopyData(c) \/ CopyFail(c) \/ CopyStop(c) \/ CopyDone(c)
    PROVE  Mirrored(c)'
  <1>1. CASE CopyData(c) \/ CopyFail(c) \/ CopyStop(c)
    BY <1>1, CopyEffect, MirroredKeep DEF history
  <1>2. CASE CopyDone(c)
    <2>1. /\ sp'[c].client = "typed" <=> sp[c].client = "typed"
          /\ UNCHANGED <<cfg, tcp, srv, believes, history>>
          /\ sending[c] = <<>> => sending'[c] = <<>>
          /\ sending[c] # <<>> => /\ Head(sending'[c]).sql = Head(sending[c]).sql
                                  /\ Head(sending[c]).sql \in Texts /\ Streams(Head(sending[c]).sql)
      BY <1>2, CopyDoneEffect
    <2>2. sending[c] # <<>> => Uncontrolled(Head(sending'[c]).sql)
      BY <2>1 DEF CopiesRecognised, ControlReplayed
    <2> QED BY <2>1, <2>2 DEF Mirrored, ShadowUnset, KeptControl, FollowsAt, Replays, history
  <1> QED BY <1>1, <1>2

\* What the server runs for a command whose event has its text.
LEMMA RunsText ==
    ASSUME StreamInv, NEW c \in Conns, Served(c), sending[c] # <<>>, Head(sending[c]) \in Formed, NEW e,
           Head(sending[c]).kind # "parse", Head(sending[c]).kind = "bind" => Head(sending[c]).seen
    PROVE  /\ Head(sending[c]).sql \in Texts
           /\ Runs(Head(sending[c]), srv[c], e) = Execute(Head(sending[c]).sql, srv[c].status, e)
  <1> DEFINE cmd == Head(sending[c])
  <1>1. cmd.sql \in Texts /\ cmd.sql # None
    BY StreamAssumption DEF Formed
  <1>2. CASE cmd.kind = "bind"
    <2>1. srv[c].prep[cmd.name] = cmd.sql
      BY <1>2 DEF Served, BoundKnown, Answering
    <2>2. Runs(cmd, srv[c], e) = IF srv[c].prep[cmd.name] = None
                                 THEN [status |-> Fail(srv[c].status), halted |-> TRUE]
                                 ELSE Execute(srv[c].prep[cmd.name], srv[c].status, e)
      BY <1>2 DEF Runs
    <2> QED BY <1>1, <2>1, <2>2
  <1>3. CASE cmd.kind # "bind"
    <2>1. Runs(cmd, srv[c], e) = Execute(cmd.sql, srv[c].status, e)
      BY <1>3 DEF Runs
    <2> QED BY <1>1, <2>1
  <1> QED BY <1>2, <1>3

LEMMA MirroredReply ==
    ASSUME StreamInv, NEW c \in Conns, Tracks(c), Served(c), Mirrored(c), NEW e, Reply(c, e)
    PROVE  Mirrored(c)'
  <1> DEFINE cmd  == Head(sending[c])
             run  == Runs(cmd, srv[c], e)
  <1>1. /\ cmd \in Formed /\ run \in Outcomes /\ sending[c] # <<>> /\ sending'[c] = <<>>
        /\ tcp[c] = "ready" /\ UNCHANGED <<cfg, counter, tcp, copyIn>>
        /\ srv'[c].status = run.status
        /\ shadow'[c] = IF cmd.kept THEN Execute(cmd.event, shadow[c], e).status ELSE shadow[c]
    BY ReplyEffect, ZenonT(60)
  <1>2. sp'[c].client = "typed" <=> sp[c].client = "typed"
    BY ReplyEffect, ZenonT(60)
  <1>3. strayed'[c] <=> strayed[c] \/ (~cmd.kept /\ run.halted)
    BY ReplyEffect, Zenon
  <1>4. ShadowUnset(c)' /\ KeptControl(c)'
    BY <1>1 DEF ShadowUnset, KeptControl
  <1>5. FollowsAt(c)'
    <2>1. SUFFICES ASSUME sp'[c].client = "typed", ~strayed'[c], Replays' PROVE shadow'[c] = srv'[c].status
      BY DEF FollowsAt
    <2>2. sp[c].client = "typed" /\ ~strayed[c] /\ (cmd.kept \/ ~run.halted) /\ Replays
      BY <1>1, <1>2, <1>3, <2>1 DEF Replays
    <2>3. shadow[c] = srv[c].status /\ srv[c].status \in Status
      BY <2>2, TypeFacts DEF Mirrored, FollowsAt, StreamInv
    <2>4. CASE cmd.kept
      <3>1. cmd.seen
        BY <1>1, <2>4 DEF Formed
      <3>2. cmd.kind # "parse" /\ cmd.event = cmd.sql
        BY <1>1, <3>1 DEF Served, EventText
      <3>3. run = Execute(cmd.sql, srv[c].status, e)
        BY <1>1, <3>1, <3>2, RunsText
      <3> QED BY <1>1, <2>3, <2>4, <3>2, <3>3
    <2>5. CASE ~cmd.kept
      <3>1. ~run.halted
        BY <2>2, <2>5
      <3>2. SUFFICES run.status = srv[c].status
        BY <1>1, <2>3, <2>5
      <3>3. CASE cmd.kind = "parse"
        <4>1. run = IF e # 0 \/ srv[c].status = "Failed" THEN [status |-> Fail(srv[c].status), halted |-> TRUE]
                    ELSE [status |-> srv[c].status, halted |-> FALSE]
          BY <3>3 DEF Runs
        <4> HIDE DEF run
        <4> QED BY <3>1, <4>1
      <3>4. CASE cmd.kind = "bind" /\ ~cmd.seen
        <4>1. srv[c].prep[cmd.name] = None
          BY <1>1, <2>2, <3>4 DEF Served, BoundKnown, Answering, Replays
        <4>2. run = [status |-> Fail(srv[c].status), halted |-> TRUE]
          BY <3>4, <4>1 DEF Runs
        <4> HIDE DEF run
        <4> QED BY <3>1, <4>2
      <3>5. CASE cmd.kind # "parse" /\ (cmd.kind = "bind" => cmd.seen)
        <4>1. cmd.sql \in Texts /\ run = Execute(cmd.sql, srv[c].status, e)
          BY <1>1, <3>5, RunsText
        <4>2. Uncontrolled(cmd.sql)
          BY <1>1, <2>2, <2>5, <3>5 DEF Mirrored, KeptControl
        <4> HIDE DEF run
        <4> QED BY <2>3, <3>1, <4>1, <4>2, ExecuteUncontrolled
      <3> QED BY <3>3, <3>4, <3>5
    <2> QED BY <2>4, <2>5
  <1> QED BY <1>4, <1>5 DEF Mirrored

LEMMA MirroredStep ==
    ASSUME StreamInv, Depth = 1, CopiesRecognised, PreparedRecorded, OverridesKeep, ControlReplayed,
           NEW c \in Conns, Tracks(c), Recorded(c), Served(c), Mirrored(c), Step(c)
    PROVE  Mirrored(c)'
  <1>1. Queries \subseteq Texts /\ ResetQueries \subseteq Texts /\ Prepared \subseteq Texts
    BY DEF Texts
  <1>2. ASSUME NEW sql \in Queries, Query(c, sql) PROVE Mirrored(c)'
    BY <1>1, <1>2, MirroredQuery DEF Query
  <1>3. ASSUME NEW sql \in ResetQueries, PoolerReset(c, sql) PROVE Mirrored(c)'
    BY <1>1, <1>3, MirroredQuery DEF PoolerReset
  <1>4. ASSUME NEW n \in Names, NEW sql \in Prepared, Parse(c, n, sql) PROVE Mirrored(c)'
    <2>1. Sent(c, "parse", n, sql) /\ NoEvent(c)
      BY <1>1, <1>4, ParseEffect
    <2> QED BY <2>1, MirroredSent
  <1>5. ASSUME NEW n \in Names, Bind(c, n) PROVE Mirrored(c)'
    BY <1>5, MirroredBind
  <1>6. ASSUME NEW e, Reply(c, e) PROVE Mirrored(c)'
    BY <1>6, MirroredReply
  <1> QED BY <1>2, <1>3, <1>4, <1>5, <1>6, MirroredConnections, MirroredCopy DEF Step

AllMirrored == \A c \in Conns : Mirrored(c)

LEMMA InitMirrored == Init => AllMirrored
  <1> SUFFICES ASSUME Init, NEW c \in Conns PROVE Mirrored(c)
    BY DEF AllMirrored
  <1>1. sp[c] = Released /\ shadow[c] = "Idle"
    BY DEF Init
  <1>2. sp[c].client = "none"
    BY <1>1 DEF Released
  <1> QED BY <1>1, <1>2 DEF Mirrored, ShadowUnset, KeptControl, FollowsAt

LEMMA NextMirrored ==
    ASSUME Depth = 1, CopiesRecognised, PreparedRecorded, OverridesKeep, ControlReplayed
    PROVE  StreamInv /\ AllTrack /\ AllRecorded /\ AllServed /\ AllMirrored /\ [Next]_vars => AllMirrored'
  <1> SUFFICES ASSUME StreamInv, AllTrack, AllRecorded, AllServed, AllMirrored, [Next]_vars PROVE AllMirrored'
    OBVIOUS
  <1>1. CASE UNCHANGED vars
    <2> SUFFICES ASSUME NEW c \in Conns PROVE Mirrored(c)'
      BY DEF AllMirrored
    <2>1. Mirrored(c)
      BY DEF AllMirrored
    <2>2. UNCHANGED <<cfg, sp, tcp, srv, sending, shadow, strayed>>
      BY <1>1 DEF vars, env, hist
    <2> QED BY <2>1, <2>2, MirroredKeep
  <1>2. CASE Next
    <2>1. PICK c \in Conns : Step(c)
      BY <1>2 DEF Next, Step
    <2>2. Mirrored(c)'
      BY <2>1, MirroredStep DEF AllTrack, AllRecorded, AllServed, AllMirrored
    <2>3. ASSUME NEW d \in Conns, d # c PROVE Mirrored(d)'
      <3>1. Others(c) /\ UNCHANGED cfg /\ shadow'[d] = shadow[d] /\ strayed'[d] = strayed[d]
        BY <2>1, <2>3, StepFrame, HistoryFrame
      <3> QED BY <2>3, <3>1, MirroredKeep DEF AllMirrored, Others
    <2> QED BY <2>2, <2>3 DEF AllMirrored
  <1> QED BY <1>1, <1>2

\* When clients wait, every COPY and reset query is recognised, every Parse
\* recorded, the custom rules drop plain reads at most and nothing that the
\* filter or the length limit passes over carries transaction control, then a
\* session that runs only the kept events is in the source session's transaction
\* status, whatever is batched, bound, copied or fails (Filter.Decide,
\* classifyMultiStatement, BindCorrelator, CopyTracker).
THEOREM StreamShadowFollows ==
    ASSUME Depth = 1, CopiesRecognised, PreparedRecorded, ResetsRecognised, ResetsDeallocate,
           OverridesKeep, ControlReplayed
    PROVE  Spec => []ShadowFollowsSource
  <1>1. AllMirrored => ShadowFollowsSource
    BY DEF AllMirrored, Mirrored, FollowsAt, Replays, ShadowFollowsSource
  <1> QED BY <1>1, InitStream, NextStream, InitTracks, NextTracks, InitRecorded, NextRecorded,
             InitServed, NextServed, InitMirrored, NextMirrored, PTL DEF Spec

----------------------------------------------------------------------------
(***************************************************************************)
(* The TxIDs of a transaction block.                                       *)
(***************************************************************************)
\* No text that is too long opens a block, and a batch with COMMIT or ROLLBACK
\* begins with it and opens none.
OversizedOpenNothing == \A sql \in Oversized : "begin" \notin Range(sql)
CommitsFirst == \A sql \in Texts : Classify(sql) = "CommitRollback" => sql[1] = "commit" /\ "begin" \notin Range(sql)
AllExtended == \A k \in Configs : k.extended

\* The command on its way runs the text recorded with it.
Runnable(c) == /\ sending[c] # <<>> /\ Head(sending[c]).kind # "parse"
               /\ Head(sending[c]).kind = "bind" => Head(sending[c]).seen
Opening(c) == Runnable(c) /\ srv[c].status = "Idle" /\ "begin" \in Range(Head(sending[c]).sql)
Ending(c) == Runnable(c) /\ Head(sending[c]).seen /\ Classify(Head(sending[c]).sql) = "CommitRollback"
\* A block that the command on its way does not end, or that it opens.
Continues(c) == (srv[c].status # "Idle" /\ ~Ending(c)) \/ Opening(c)
Keeps(c) == sending[c] # <<>> /\ Head(sending[c]).kept
\* x may be used in the session's block.
Fresh(c, x) == x # 0 /\ blocks[c] \subseteq {x} /\ x \notin past

\* Outside a block no TxID has been used in it.
NoBlock(c) == srv[c].status = "Idle" => blocks[c] = {}
\* The processor has the block's TxID, and so has the command on its way.
Current(c) == sp[c].client = "typed" /\ Continues(c) => Fresh(c, sp[c].txid)
Carried(c) == Keeps(c) /\ (srv[c].status # "Idle" \/ Opening(c)) => Fresh(c, Head(sending[c]).txid)
Shared(c) == sp[c].client = "typed" /\ Keeps(c) /\ Continues(c) => Head(sending[c]).txid = sp[c].txid
\* TxGrouped at one connection.
OneID(c) == 0 \notin blocks[c] /\ blocks[c] \cap past = {} /\ \A x, y \in blocks[c] : x = y

Grouped(c) == NoBlock(c) /\ Current(c) /\ Carried(c) /\ Shared(c) /\ OneID(c)

\* The TxIDs that a connection may still use, or has used in its open block.
Owns(c, x) == /\ x # 0
              /\ \/ x = sp[c].txid
                 \/ x \in blocks[c]
                 \/ Keeps(c) /\ x = Head(sending[c]).txid
\* They were handed out, and no two connections have one in common.
Ids == /\ \A c \in Conns : \A x : Owns(c, x) => x \in 1..counter
       /\ past \subseteq 0..counter
       /\ \A c, d \in Conns : c # d => \A x : ~(Owns(c, x) /\ Owns(d, x))

\* What a step on a connection may do to them: take the next one, or put its own away.
Takes(c) == /\ counter' \in {counter, counter + 1}
            /\ \A x : Owns(c, x)' => Owns(c, x) \/ (x = counter + 1 /\ counter' = counter + 1)
            /\ \A x \in past' : x \in past \/ Owns(c, x) \/ x = 0

LEMMA TakesIds ==
    ASSUME counter \in Nat, Ids, NEW c \in Conns, Takes(c),
           \A d \in Conns : d # c => \A x : Owns(d, x)' <=> Owns(d, x)
    PROVE  Ids'
  <1>1. counter' \in Nat /\ counter <= counter' /\ 1..counter \subseteq 1..counter' /\ 0..counter \subseteq 0..counter'
    BY DEF Takes
  <1>2. counter + 1 \notin 1..counter
    OBVIOUS
  <1>3. counter' = counter + 1 => counter + 1 \in 1..counter'
    OBVIOUS
  <1>4. \A d \in Conns : \A x : Owns(d, x)' => x \in 1..counter'
    BY <1>1, <1>3 DEF Ids, Takes
  <1>5. past' \subseteq 0..counter'
    <2> SUFFICES ASSUME NEW x \in past' PROVE x \in 0..counter'
      OBVIOUS
    <2>1. x \in past \/ Owns(c, x) \/ x = 0
      BY DEF Takes
    <2>2. Owns(c, x) => x \in 1..counter
      BY DEF Ids
    <2>3. past \subseteq 0..counter /\ 1..counter \subseteq 0..counter /\ 0 \in 0..counter
      BY DEF Ids
    <2> QED BY <1>1, <2>1, <2>2, <2>3
  <1>6. ASSUME NEW d \in Conns, NEW f \in Conns, d # f, NEW x, Owns(d, x)', Owns(f, x)' PROVE FALSE
    <2>1. ASSUME NEW g \in Conns, g # c, Owns(g, x)', Owns(c, x)' PROVE FALSE
      <3>1. Owns(g, x) /\ x \in 1..counter
        BY <2>1 DEF Ids
      <3>2. Owns(c, x) \/ x = counter + 1
        BY <2>1 DEF Takes
      <3> QED BY <1>2, <2>1, <3>1, <3>2 DEF Ids
    <2>2. CASE d = c
      BY <1>6, <2>1, <2>2
    <2>3. CASE f = c
      BY <1>6, <2>1, <2>3
    <2>4. CASE d # c /\ f # c
      BY <1>6, <2>4 DEF Ids
    <2> QED BY <2>2, <2>3, <2>4
  <1> QED BY <1>4, <1>5, <1>6 DEF Ids

\* A step that changes nothing of a connection but may put TxIDs of another away.
LEMMA GroupedKeep ==
    ASSUME NEW c \in Conns, Grouped(c),
           srv'[c] = srv[c], sending'[c] = sending[c], blocks'[c] = blocks[c],
           sp'[c].client = "typed" <=> sp[c].client = "typed", sp'[c].txid = sp[c].txid,
           \A x \in past' : x \in past \/ ~Owns(c, x)
    PROVE  Grouped(c)'
  <1>1. /\ Opening(c)' <=> Opening(c)
        /\ Ending(c)' <=> Ending(c)
        /\ Keeps(c)' <=> Keeps(c)
    BY DEF Opening, Ending, Keeps, Runnable
  <1>2. Continues(c)' <=> Continues(c)
    BY <1>1 DEF Continues
  <1>3. NoBlock(c)' /\ Shared(c)'
    BY <1>1, <1>2 DEF Grouped, NoBlock, Shared
  <1>4. Current(c)'
    <2>1. Fresh(c, sp[c].txid) => sp[c].txid \notin past'
      BY DEF Fresh, Owns
    <2> QED BY <1>2, <2>1 DEF Grouped, Current, Fresh
  <1>5. Carried(c)'
    <2>1. Keeps(c) /\ Fresh(c, Head(sending[c]).txid) => Head(sending[c]).txid \notin past'
      BY DEF Fresh, Owns
    <2> QED BY <1>1, <2>1 DEF Grouped, Carried, Fresh
  <1>6. OneID(c)'
    <2>1. \A x \in blocks[c] : x \notin past'
      BY DEF Grouped, OneID, Owns
    <2> QED BY <2>1 DEF Grouped, OneID
  <1> QED BY <1>3, <1>4, <1>5, <1>6 DEF Grouped

LEMMA OwnsKeep ==
    ASSUME NEW c \in Conns, sp'[c].txid = sp[c].txid, blocks'[c] = blocks[c], sending'[c] = sending[c], NEW x
    PROVE  Owns(c, x)' <=> Owns(c, x)
  BY DEF Owns, Keeps

\* What an action on a connection keeps.
Groups(c) == Grouped(c)' /\ Takes(c)

LEMMA GroupsNothing ==
    ASSUME NEW c \in Conns, Grouped(c),
           srv'[c] = srv[c], sending'[c] = sending[c], sp'[c].txid = sp[c].txid,
           sp'[c].client = "typed" <=> sp[c].client = "typed", UNCHANGED counter, UNCHANGED history
    PROVE  Groups(c)
  <1>1. Grouped(c)'
    BY GroupedKeep DEF history
  <1>2. \A x : Owns(c, x)' <=> Owns(c, x)
    BY OwnsKeep DEF history
  <1> QED BY <1>1, <1>2 DEF Groups, Takes, history

LEMMA GroupsConnections ==
    ASSUME StreamInv, NEW c \in Conns, Tracks(c), Grouped(c),
           Connect(c) \/ RefuseSSL(c) \/ Cancel(c) \/ Startup(c) \/ Fin(c) \/ Release(c)
    PROVE  Groups(c)
  <1>1. CASE Connect(c) \/ RefuseSSL(c) \/ Cancel(c)
    BY <1>1, ConnectionEffect, GroupsNothing
  <1>2. CASE Startup(c)
    <2>1. /\ tcp[c] # "ready" /\ sp'[c].txid = sp[c].txid
          /\ UNCHANGED <<counter, srv, sending>> /\ UNCHANGED history
      BY <1>2, StartupEffect
    <2>2. srv[c].status = "Idle" /\ sending[c] = <<>>
      BY <2>1 DEF Tracks, Quiet
    <2>3. Grouped(c)'
      BY <2>1, <2>2 DEF Grouped, NoBlock, Current, Carried, Shared, OneID, Continues, Opening, Runnable, Keeps, history
    <2>4. \A x : Owns(c, x)' <=> Owns(c, x)
      BY <2>1, OwnsKeep DEF history
    <2> QED BY <2>1, <2>3, <2>4 DEF Groups, Takes, history
  <1>3. CASE Fin(c)
    <2>1. sp'[c].client = "none" /\ sp'[c].txid = 0 /\ srv'[c].status = "Idle" /\ sending'[c] = <<>>
      BY <1>3, FinStep DEF Released, Session
    <2>2. blocks'[c] = {} /\ past' = past \union blocks[c] /\ UNCHANGED counter
      BY <1>3 DEF Fin, StreamInv, TypeOK
    <2>3. Grouped(c)'
      BY <2>1, <2>2 DEF Grouped, NoBlock, Current, Carried, Shared, OneID, Continues, Opening, Runnable, Keeps
    <2>4. \A x : ~Owns(c, x)'
      BY <2>1, <2>2 DEF Owns, Keeps
    <2>5. \A x \in past' : x \in past \/ Owns(c, x) \/ x = 0
      BY <2>2 DEF Owns
    <2> QED BY <2>2, <2>3, <2>4, <2>5 DEF Groups, Takes
  <1>4. CASE Release(c)
    <2>1. sp'[c].client = "none" /\ sp'[c].txid = 0 /\ UNCHANGED <<srv, sending>>
      BY <1>4, ReleaseStep DEF Released
    <2>2. UNCHANGED <<blocks, past, counter>>
      BY <1>4 DEF Release
    <2>3. Grouped(c)'
      BY <2>1, <2>2 DEF Grouped, NoBlock, Current, Carried, Shared, OneID, Opening, Runnable, Keeps, Fresh
    <2>4. \A x : Owns(c, x)' => Owns(c, x)
      BY <2>1, <2>2 DEF Owns, Keeps
    <2> QED BY <2>2, <2>3, <2>4 DEF Groups, Takes
  <1> QED BY <1>1, <1>2, <1>3, <1>4

\* A command without an event is sent; if the server runs it, it opens no block.
LEMMA GroupsUnseen ==
    ASSUME NEW c \in Conns, Grouped(c), NEW kind, NEW n, NEW sql, Sent(c, kind, n, sql), NoEvent(c),
           kind \notin {"parse", "bind"} => sp[c].client # "typed" \/ "begin" \notin Range(sql)
    PROVE  Groups(c)
  <1>1. ~Keeps(c)' /\ ~Ending(c)' /\ ~Ending(c) /\ ~Opening(c)
    BY DEF Keeps, Ending, Opening, Runnable, Sent, NoEvent
  <1>2. sp[c].client = "typed" => ~Opening(c)'
    BY DEF Opening, Runnable, Sent, NoEvent
  <1>3. /\ srv'[c] = srv[c] /\ blocks'[c] = blocks[c] /\ past' = past /\ sp'[c].txid = sp[c].txid /\ counter' = counter
        /\ sp'[c].client = "typed" <=> sp[c].client = "typed"
    BY DEF Sent, NoEvent, history
  <1>4. Grouped(c)'
    BY <1>1, <1>2, <1>3 DEF Grouped, NoBlock, Current, Carried, Shared, OneID, Continues, Fresh
  <1>5. \A x : Owns(c, x)' => Owns(c, x)
    BY <1>1, <1>3 DEF Owns
  <1> QED BY <1>3, <1>4, <1>5 DEF Groups, Takes

\* The TxID of an event in a block is the block's.
LEMMA FreshID ==
    ASSUME CommitsFirst, counter \in Nat, past \subseteq 0..counter, NEW c \in Conns, Grouped(c), NEW sql \in Texts,
           sending[c] = <<>>, sp[c].client = "typed",
           "begin" \in Range(sql) => srv[c].status = "Idle",
           srv[c].status # "Idle" \/ "begin" \in Range(sql)
    PROVE  Fresh(c, TxIDFor(sp[c], sql))
  <1>1. srv[c].status # "Idle" => Fresh(c, sp[c].txid)
    BY DEF Grouped, Current, Continues, Ending, Runnable
  <1>2. CASE Advances(sp[c], sql)
    <2>1. TxIDFor(sp[c], sql) = counter + 1
      BY <1>2 DEF TxIDFor
    <2>2. srv[c].status = "Idle"
      <3>1. Classify(sql) = "Begin" => "begin" \in Range(sql)
        BY BeginClass
      <3>2. srv[c].status # "Idle" => sp[c].txid # 0
        BY <1>1 DEF Fresh
      <3> QED BY <1>2, <3>1, <3>2 DEF Advances
    <2>3. blocks[c] = {}
      BY <2>2 DEF Grouped, NoBlock
    <2>4. counter + 1 # 0 /\ counter + 1 \notin 0..counter
      OBVIOUS
    <2> QED BY <2>1, <2>3, <2>4 DEF Fresh
  <1>3. CASE ~Advances(sp[c], sql)
    <2>1. TxIDFor(sp[c], sql) = sp[c].txid
      BY <1>3 DEF TxIDFor
    <2>2. "begin" \notin Range(sql)
      BY <1>3, BeginClass DEF Advances, CommitsFirst
    <2> QED BY <1>1, <2>1, <2>2
  <1> QED BY <1>2, <1>3

\* A command with an event is sent.
LEMMA GroupsEvent ==
    ASSUME CommitsFirst, counter \in Nat, past \subseteq 0..counter, NEW c \in Conns, Grouped(c),
           NEW kind, kind # "parse", NEW n, NEW sql \in Texts, Sent(c, kind, n, sql), EventMade(c, sql),
           "begin" \in Range(sql) => srv[c].status = "Idle",
           Resets(sql) => srv[c].status = "Idle"
    PROVE  Groups(c)
  <1> DEFINE t == TxIDFor(sp[c], sql)
  <1>1. /\ srv'[c] = srv[c] /\ blocks'[c] = blocks[c] /\ past' = past
        /\ sp[c].client = "typed" /\ sp'[c].client = "typed" /\ sending[c] = <<>>
    BY DEF Sent, EventMade, history
  <1>2. /\ sending'[c] # <<>> /\ Head(sending'[c]).kind = kind /\ Head(sending'[c]).sql = sql
        /\ Head(sending'[c]).seen /\ Head(sending'[c]).txid = t
        /\ sp'[c].txid = IF Resets(sql) \/ Classify(sql) = "CommitRollback" THEN 0 ELSE t
        /\ counter' = IF Advances(sp[c], sql) THEN counter + 1 ELSE counter
    BY DEF Sent, EventMade
  <1>3. srv[c].status # "Idle" \/ "begin" \in Range(sql) => Fresh(c, t)
    BY <1>1, FreshID
  <1>4. t = IF Advances(sp[c], sql) THEN counter + 1 ELSE sp[c].txid
    BY DEF TxIDFor
  <1> HIDE DEF t
  <1>5. /\ Opening(c)' <=> srv[c].status = "Idle" /\ "begin" \in Range(sql)
        /\ Ending(c)' <=> Classify(sql) = "CommitRollback"
    BY <1>1, <1>2 DEF Opening, Ending, Runnable
  <1>6. \A x : Fresh(c, x)' <=> Fresh(c, x)
    BY <1>1 DEF Fresh
  <1>7. NoBlock(c)' /\ OneID(c)'
    BY <1>1 DEF Grouped, NoBlock, OneID
  <1>8. Carried(c)'
    BY <1>1, <1>2, <1>3, <1>5, <1>6 DEF Carried
  <1>9. Continues(c)' => sp'[c].txid = t /\ Fresh(c, t)
    <2>1. SUFFICES ASSUME Continues(c)' PROVE sp'[c].txid = t /\ Fresh(c, t)
      OBVIOUS
    <2>2. (srv[c].status # "Idle" /\ Classify(sql) # "CommitRollback") \/ "begin" \in Range(sql)
      BY <1>1, <1>5, <2>1 DEF Continues
    <2>3. Classify(sql) # "CommitRollback"
      BY <2>2 DEF CommitsFirst
    <2>4. "begin" \in Range(sql) => ~Resets(sql)
      BY BeginClass DEF Resets
    <2> QED BY <1>2, <1>3, <2>2, <2>3, <2>4
  <1>10. Current(c)' /\ Shared(c)'
    BY <1>2, <1>6, <1>9 DEF Current, Shared
  <1>11. \A x : Owns(c, x)' => Owns(c, x) \/ (x = counter + 1 /\ counter' = counter + 1)
    BY <1>1, <1>2, <1>4 DEF Owns
  <1> QED BY <1>1, <1>2, <1>7, <1>8, <1>10, <1>11 DEF Groups, Takes, Grouped

LEMMA GroupsQuery ==
    ASSUME StreamInv, Ids, Depth = 1, CommitsFirst, OversizedOpenNothing, NEW c \in Conns, Grouped(c),
           NEW kind \in {"query", "reset"}, NEW sql \in Texts, SimpleQuery(c, kind, sql),
           Resets(sql) => srv[c].status = "Idle"
    PROVE  Groups(c)
  <1>1. /\ Sent(c, kind, None, sql)
        /\ "begin" \in Range(sql) => srv[c].status = "Idle"
        /\ IF sp[c].client = "typed" /\ Dispatches(sql) THEN EventMade(c, sql) ELSE NoEvent(c)
    BY QueryEffect
  <1>2. counter \in Nat /\ past \subseteq 0..counter
    BY DEF StreamInv, TypeOK, Ids
  <1>3. ~Dispatches(sql) => "begin" \notin Range(sql)
    BY BeginClass DEF Dispatches, OversizedOpenNothing
  <1>4. CASE sp[c].client = "typed" /\ Dispatches(sql)
    BY <1>1, <1>2, <1>4, GroupsEvent
  <1>5. CASE ~(sp[c].client = "typed" /\ Dispatches(sql))
    BY <1>1, <1>3, <1>5, GroupsUnseen
  <1> QED BY <1>4, <1>5

LEMMA GroupsBind ==
    ASSUME StreamInv, Ids, Depth = 1, PreparedRecorded, CommitsFirst, NEW c \in Conns, Recorded(c),
           Grouped(c), NEW n \in Names, Bind(c, n), Served(c)'
    PROVE  Groups(c)
  <1> DEFINE info == sp[c].parsed[n]
             seen == sp[c].client = "typed" /\ info # None
  <1>1. /\ Sent(c, "bind", n, IF seen THEN info.sql ELSE None)
        /\ srv[c].prep[n] # None /\ "begin" \in Range(srv[c].prep[n]) => srv[c].status = "Idle"
        /\ IF seen THEN info.sql \in Texts /\ info.sql \in Prepared /\ EventMade(c, info.sql) ELSE NoEvent(c)
    BY BindEffect, Zenon
  <1>2. counter \in Nat /\ past \subseteq 0..counter
    BY DEF StreamInv, TypeOK, Ids
  <1> HIDE DEF info, seen
  <1>3. CASE seen
    <2>1. Sent(c, "bind", n, info.sql) /\ info.sql \in Texts /\ info.sql \in Prepared /\ EventMade(c, info.sql)
      BY <1>1, <1>3
    <2>2. ~Resets(info.sql) /\ info.sql # None
      BY <2>1, StreamAssumption DEF Resets, PreparedRecorded
    <2>3. srv[c].prep[n] = info.sql
      BY <2>1 DEF Served, BoundKnown, Answering, Sent, EventMade
    <2>4. "begin" \in Range(info.sql) => srv[c].status = "Idle"
      BY <1>1, <2>2, <2>3
    <2> QED BY <1>2, <2>1, <2>2, <2>4, GroupsEvent
  <1>4. CASE ~seen
    <2>1. Sent(c, "bind", n, None) /\ NoEvent(c)
      BY <1>1, <1>4
    <2> QED BY <2>1, GroupsUnseen
  <1> QED BY <1>3, <1>4

LEMMA GroupsCopy ==
    ASSUME StreamInv, CopiesRecognised, NEW c \in Conns, Tracks(c), Grouped(c),
           CopyData(c) \/ CopyFail(c) \/ CopyStop(c) \/ CopyDone(c)
    PROVE  Groups(c)
  <1>1. CASE CopyData(c) \/ CopyFail(c) \/ CopyStop(c)
    BY <1>1, CopyEffect, GroupsNothing
  <1>2. CASE CopyDone(c)
    <2>1. /\ sp'[c].client = "typed" <=> sp[c].client = "typed"
          /\ UNCHANGED <<cfg, tcp, srv, believes, history>>
          /\ sending[c] = <<>> => sending'[c] = <<>>
          /\ sending[c] # <<>> => /\ sending'[c] # <<>>
                                  /\ Head(sending'[c]).kind = Head(sending[c]).kind
                                  /\ Head(sending'[c]).sql = Head(sending[c]).sql
                                  /\ Head(sending[c]).kind \in {"query", "reset"}
                                  /\ Head(sending[c]).sql \in Texts /\ Streams(Head(sending[c]).sql)
          /\ CopyEvent(c) \/ NoCopyEvent(c)
      BY <1>2, CopyDoneEffect
    <2>2. srv'[c] = srv[c] /\ blocks'[c] = blocks[c] /\ past' = past
      BY <2>1 DEF history
    <2>3. sending[c] # <<>> => /\ "begin" \notin Range(Head(sending[c]).sql)
                               /\ Classify(Head(sending[c]).sql) = "CopyFrom"
      BY <2>1, BeginClass DEF CopiesRecognised
    <2>4. ~Opening(c) /\ ~Ending(c) /\ ~Opening(c)' /\ ~Ending(c)'
      BY <2>1, <2>3 DEF Opening, Ending, Runnable
    <2>5. NoBlock(c)' /\ OneID(c)'
      BY <2>2 DEF Grouped, NoBlock, OneID
    <2>6. \A x : Fresh(c, x)' <=> Fresh(c, x)
      BY <2>2 DEF Fresh
    <2>7. CASE CopyEvent(c)
      <3> DEFINE t == TxIDFor(sp[c], sp[c].copy.sql)
      <3>1. /\ sp[c].client = "typed" /\ Classify(sp[c].copy.sql) = "CopyFrom" /\ sp'[c].txid = t
            /\ counter' = IF Advances(sp[c], sp[c].copy.sql) THEN counter + 1 ELSE counter
            /\ sending[c] # <<>> => Head(sending'[c]).txid = sp'[c].txid
        BY <2>7 DEF CopyEvent
      <3>2. t = IF Advances(sp[c], sp[c].copy.sql) THEN counter + 1 ELSE sp[c].txid
        BY DEF TxIDFor
      <3> HIDE DEF t
      <3>3. srv[c].status # "Idle" => Fresh(c, sp[c].txid)
        BY <2>4, <3>1 DEF Grouped, Current, Continues
      <3>4. srv[c].status # "Idle" => t = sp[c].txid
        BY <3>1, <3>2, <3>3 DEF Advances, Fresh
      <3>5. Current(c)' /\ Carried(c)' /\ Shared(c)'
        BY <2>1, <2>2, <2>4, <2>6, <3>1, <3>3, <3>4 DEF Current, Carried, Shared, Continues, Keeps
      <3>6. \A x : Owns(c, x)' => Owns(c, x) \/ (x = counter + 1 /\ counter' = counter + 1)
        BY <2>1, <2>2, <3>1, <3>2 DEF Owns, Keeps
      <3> QED BY <2>2, <2>5, <3>1, <3>5, <3>6 DEF Groups, Takes, Grouped
    <2>8. CASE NoCopyEvent(c)
      <3>1. /\ sp'[c].txid = sp[c].txid /\ counter' = counter
            /\ sending[c] # <<>> => /\ Head(sending'[c]).kept = Head(sending[c]).kept
                                    /\ Head(sending'[c]).txid = Head(sending[c]).txid
        BY <2>8 DEF NoCopyEvent
      <3>2. Keeps(c)' <=> Keeps(c)
        BY <2>1, <3>1 DEF Keeps
      <3>3. Keeps(c) => Head(sending'[c]).txid = Head(sending[c]).txid
        BY <3>1 DEF Keeps
      <3>4. Current(c)' /\ Carried(c)' /\ Shared(c)'
        BY <2>1, <2>2, <2>4, <2>6, <3>1, <3>2, <3>3 DEF Grouped, Current, Carried, Shared, Continues
      <3>5. \A x : Owns(c, x)' <=> Owns(c, x)
        BY <2>2, <3>1, <3>2, <3>3 DEF Owns
      <3> QED BY <2>2, <2>5, <3>1, <3>4, <3>5 DEF Groups, Takes, Grouped
    <2> QED BY <2>1, <2>7, <2>8
  <1> QED BY <1>1, <1>2

\* Only a batch with BEGIN that the processor has seen, if anything, opens a block.
LEMMA ReplyOpens ==
    ASSUME StreamInv, NEW c \in Conns, Served(c), sending[c] # <<>>, Head(sending[c]) \in Formed, NEW e,
           srv[c].status = "Idle", Runs(Head(sending[c]), srv[c], e).status # "Idle",
           Head(sending[c]).seen \/ (sp[c].client = "typed" /\ cfg.extended)
    PROVE  Opening(c)
  <1> DEFINE cmd == Head(sending[c])
             run == Runs(cmd, srv[c], e)
  <1>1. Fail("Idle") = "Idle"
    BY DEF Fail
  <1>2. cmd.kind # "parse"
    <2> SUFFICES ASSUME cmd.kind = "parse" PROVE FALSE
      OBVIOUS
    <2>1. run = IF e # 0 \/ srv[c].status = "Failed" THEN [status |-> Fail(srv[c].status), halted |-> TRUE]
                ELSE [status |-> srv[c].status, halted |-> FALSE]
      BY DEF Runs
    <2>2. run.status # "Idle"
      OBVIOUS
    <2> HIDE DEF run
    <2> QED BY <1>1, <2>1, <2>2
  <1>3. cmd.kind = "bind" => cmd.seen
    <2> SUFFICES ASSUME cmd.kind = "bind", ~cmd.seen PROVE FALSE
      OBVIOUS
    <2>1. srv[c].prep[cmd.name] = None
      BY DEF Served, BoundKnown, Answering
    <2>2. run = [status |-> Fail(srv[c].status), halted |-> TRUE]
      BY <2>1 DEF Runs
    <2>3. run.status # "Idle"
      OBVIOUS
    <2> HIDE DEF run
    <2> QED BY <1>1, <2>2, <2>3
  <1>4. cmd.sql \in Texts /\ run = Execute(cmd.sql, "Idle", e)
    BY <1>2, <1>3, RunsText
  <1>5. "begin" \in Range(cmd.sql)
    BY <1>4, ExecuteOpens
  <1> QED BY <1>2, <1>3, <1>5 DEF Opening, Runnable

LEMMA GroupsReply ==
    ASSUME StreamInv, AllExtended, CommitsFirst, NEW c \in Conns, Tracks(c), Served(c), Grouped(c), NEW e, Reply(c, e)
    PROVE  Groups(c)
  <1> DEFINE cmd  == Head(sending[c])
             run  == Runs(cmd, srv[c], e)
             used == blocks[c] \union (IF cmd.kept THEN {cmd.txid} ELSE {})
  <1>1. /\ cmd \in Formed /\ run \in Outcomes /\ sending[c] # <<>> /\ sending'[c] = <<>>
        /\ tcp[c] = "ready" /\ UNCHANGED <<cfg, counter, tcp, copyIn>>
        /\ srv'[c].status = run.status /\ sp'[c].txid = sp[c].txid
    BY ReplyEffect, ZenonT(60)
  <1>2. sp'[c].client = "typed" <=> sp[c].client = "typed"
    BY ReplyEffect, ZenonT(60)
  <1>3. blocks'[c] = IF srv[c].status = "Idle" /\ run.status = "Idle" THEN blocks[c]
                     ELSE IF run.status = "Idle" THEN {} ELSE used
    BY ReplyEffect, ZenonT(60)
  <1>4. past' = IF srv[c].status # "Idle" /\ run.status = "Idle" THEN past \union used ELSE past
    BY ReplyEffect, ZenonT(60)
  <1>5. cfg.extended
    BY DEF StreamInv, TypeOK, AllExtended
  <1>6. srv[c].status \in Status
    BY TypeFacts DEF StreamInv
  <1>7. cmd.kept => cmd.seen /\ Keeps(c)
    BY <1>1 DEF Formed, Keeps
  <1>8. srv[c].status = "Idle" /\ run.status # "Idle" /\ (cmd.seen \/ sp[c].client = "typed") => Opening(c)
    BY <1>1, <1>5, ReplyOpens
  <1>9. Ending(c) => run.status = "Idle"
    <2>1. SUFFICES ASSUME Ending(c) PROVE run.status = "Idle"
      OBVIOUS
    <2>2. cmd.sql \in Texts /\ run = Execute(cmd.sql, srv[c].status, e)
      BY <1>1, <2>1, RunsText DEF Ending, Runnable
    <2>3. cmd.sql[1] = "commit" /\ "begin" \notin Range(cmd.sql)
      BY <2>1, <2>2 DEF Ending, CommitsFirst
    <2> QED BY <1>6, <2>2, <2>3, ExecuteEnds
  <1> HIDE DEF run
  <1>10. NoBlock(c)'
    BY <1>1, <1>3 DEF Grouped, NoBlock
  <1>11. ~Keeps(c)' /\ ~Opening(c)' /\ ~Ending(c)'
    BY <1>1 DEF Keeps, Opening, Ending, Runnable
  <1>12. CASE run.status = "Idle"
    <2>1. blocks'[c] = {}
      BY <1>1, <1>10, <1>12 DEF NoBlock
    <2>2. Grouped(c)'
      BY <1>1, <1>10, <1>11, <1>12, <2>1 DEF Grouped, Current, Carried, Shared, OneID, Continues
    <2>3. \A x : Owns(c, x)' => Owns(c, x)
      BY <1>1, <1>11, <2>1 DEF Owns
    <2>4. \A x \in past' : x \in past \/ Owns(c, x) \/ x = 0
      BY <1>4, <1>7 DEF Owns
    <2> QED BY <1>1, <2>2, <2>3, <2>4 DEF Groups, Takes
  <1>13. CASE run.status # "Idle"
    <2>1. blocks'[c] = used /\ past' = past
      BY <1>3, <1>4, <1>13
    <2>2. cmd.kept => Fresh(c, cmd.txid)
      BY <1>7, <1>8, <1>13 DEF Grouped, Carried
    <2>3. OneID(c)'
      BY <2>1, <2>2 DEF Grouped, OneID, Fresh
    <2>4. Current(c)'
      <3>1. SUFFICES ASSUME sp[c].client = "typed" PROVE Fresh(c, sp[c].txid)'
        BY <1>2 DEF Current
      <3>2. Continues(c)
        BY <1>8, <1>9, <1>13, <3>1 DEF Continues
      <3>3. Fresh(c, sp[c].txid) /\ (cmd.kept => cmd.txid = sp[c].txid)
        BY <1>7, <3>1, <3>2 DEF Grouped, Current, Shared
      <3> QED BY <1>1, <2>1, <3>3 DEF Fresh
    <2>5. Carried(c)' /\ Shared(c)'
      BY <1>11 DEF Carried, Shared
    <2>6. \A x : Owns(c, x)' => Owns(c, x)
      BY <1>1, <1>7, <1>11, <2>1 DEF Owns
    <2> QED BY <1>1, <1>10, <2>1, <2>3, <2>4, <2>5, <2>6 DEF Groups, Takes, Grouped
  <1> QED BY <1>12, <1>13

LEMMA GroupsStep ==
    ASSUME StreamInv, Ids, Depth = 1, CopiesRecognised, PreparedRecorded, AllExtended, CommitsFirst,
           OversizedOpenNothing,
           NEW c \in Conns, Tracks(c), Recorded(c), Served(c), Served(c)', Grouped(c), Step(c)
    PROVE  Groups(c)
  <1>1. Queries \subseteq Texts /\ ResetQueries \subseteq Texts /\ Prepared \subseteq Texts
    BY DEF Texts
  <1>2. ASSUME NEW sql \in Queries, Query(c, sql) PROVE Groups(c)
    BY <1>1, <1>2, GroupsQuery DEF Query, Resets
  <1>3. ASSUME NEW sql \in ResetQueries, PoolerReset(c, sql) PROVE Groups(c)
    BY <1>1, <1>3, GroupsQuery DEF PoolerReset
  <1>4. ASSUME NEW n \in Names, NEW sql \in Prepared, Parse(c, n, sql) PROVE Groups(c)
    <2>1. Sent(c, "parse", n, sql) /\ NoEvent(c)
      BY <1>1, <1>4, ParseEffect
    <2> QED BY <2>1, GroupsUnseen
  <1>5. ASSUME NEW n \in Names, Bind(c, n) PROVE Groups(c)
    BY <1>5, GroupsBind
  <1>6. ASSUME NEW e, Reply(c, e) PROVE Groups(c)
    BY <1>6, GroupsReply
  <1> QED BY <1>2, <1>3, <1>4, <1>5, <1>6, GroupsConnections, GroupsCopy DEF Step

AllGrouped == Ids /\ \A c \in Conns : Grouped(c)

LEMMA InitGrouped == Init => AllGrouped
  <1> SUFFICES ASSUME Init PROVE AllGrouped
    OBVIOUS
  <1>1. ASSUME NEW c \in Conns
        PROVE  /\ sp[c].client = "none" /\ sp[c].txid = 0
               /\ srv[c].status = "Idle" /\ sending[c] = <<>> /\ blocks[c] = {}
    BY DEF Init, Released, Session
  <1>2. counter = 0 /\ past = {}
    BY DEF Init
  <1>3. ASSUME NEW c \in Conns PROVE Grouped(c)
    BY <1>1 DEF Grouped, NoBlock, Current, Carried, Shared, OneID, Keeps
  <1>4. ASSUME NEW c \in Conns, NEW x PROVE ~Owns(c, x)
    BY <1>1 DEF Owns, Keeps
  <1>5. Ids
    BY <1>2, <1>4 DEF Ids
  <1> QED BY <1>3, <1>5 DEF AllGrouped

LEMMA NextGrouped ==
    ASSUME Depth = 1, CopiesRecognised, PreparedRecorded, AllExtended, CommitsFirst, OversizedOpenNothing
    PROVE  StreamInv /\ AllTrack /\ AllRecorded /\ AllServed /\ AllServed' /\ AllGrouped /\ [Next]_vars => AllGrouped'
  <1> SUFFICES ASSUME StreamInv, AllTrack, AllRecorded, AllServed, AllServed', AllGrouped, [Next]_vars
               PROVE  AllGrouped'
    OBVIOUS
  <1>1. CASE UNCHANGED vars
    <2>1. UNCHANGED <<sp, srv, sending, counter, blocks, past>>
      BY <1>1 DEF vars, env, hist
    <2>2. ASSUME NEW c \in Conns PROVE Grouped(c)'
      BY <2>1, GroupedKeep DEF AllGrouped
    <2>3. Ids'
      BY <2>1 DEF AllGrouped, Ids, Owns, Keeps
    <2> QED BY <2>2, <2>3 DEF AllGrouped
  <1>2. CASE Next
    <2>1. PICK c \in Conns : Step(c)
      BY <1>2 DEF Next, Step
    <2>2. Grouped(c)' /\ Takes(c)
      BY <2>1, GroupsStep DEF AllTrack, AllRecorded, AllServed, AllGrouped, Groups
    <2>3. ASSUME NEW d \in Conns, d # c
          PROVE  sp'[d] = sp[d] /\ srv'[d] = srv[d] /\ sending'[d] = sending[d] /\ blocks'[d] = blocks[d]
      BY <2>1, <2>3, StepFrame, HistoryFrame DEF Others
    <2>4. ASSUME NEW d \in Conns, d # c PROVE Grouped(d)'
      <3>1. ASSUME NEW x \in past' PROVE x \in past \/ ~Owns(d, x)
        <4>1. x \in past \/ Owns(c, x) \/ x = 0
          BY <2>2 DEF Takes
        <4>2. x = 0 => ~Owns(d, x)
          BY DEF Owns
        <4>3. Owns(c, x) => ~Owns(d, x)
          BY <2>4 DEF AllGrouped, Ids
        <4> QED BY <4>1, <4>2, <4>3
      <3> QED BY <2>3, <2>4, <3>1, GroupedKeep DEF AllGrouped
    <2>5. \A d \in Conns : d # c => \A x : Owns(d, x)' <=> Owns(d, x)
      BY <2>3, OwnsKeep
    <2>6. Ids'
      <3>1. counter \in Nat
        BY DEF StreamInv, TypeOK
      <3> QED BY <2>2, <2>5, <3>1, TakesIds DEF AllGrouped
    <2> QED BY <2>2, <2>4, <2>6 DEF AllGrouped
  <1> QED BY <1>1, <1>2

\* When clients wait, the extended protocol is on, every COPY and reset query is
\* recognised, every Parse recorded, no oversized text opens a block and a batch
\* with COMMIT or ROLLBACK begins with it and opens none, then the kept events of
\* one transaction block carry one TxID, not 0 and of no earlier block of any
\* connection, whatever is batched, bound, copied, fails or is released
\* (dispatch's TxID grouping, TxIDGenerator, resetPoolerSession, OnClose).
THEOREM StreamGroupsTransactions ==
    ASSUME Depth = 1, CopiesRecognised, PreparedRecorded, ResetsRecognised, ResetsDeallocate,
           AllExtended, CommitsFirst, OversizedOpenNothing
    PROVE  Spec => []TxGrouped
  <1>1. AllGrouped => TxGrouped
    <2> SUFFICES ASSUME AllGrouped, NEW c \in Conns
                 PROVE  Cardinality(blocks[c]) <= 1 /\ 0 \notin blocks[c] /\ blocks[c] \cap past = {}
      BY DEF TxGrouped
    <2>1. OneID(c)
      BY DEF AllGrouped, Grouped
    <2>2. blocks[c] = {} \/ \E x : blocks[c] = {x}
      <3>1. CASE blocks[c] # {}
        <4>1. PICK x : x \in blocks[c]
          BY <3>1
        <4>2. blocks[c] = {x}
          BY <2>1, <4>1 DEF OneID
        <4> QED BY <4>2
      <3> QED BY <3>1
    <2>3. Cardinality(blocks[c]) = 0 \/ Cardinality(blocks[c]) = 1
      BY <2>2, FS_EmptySet, FS_Singleton
    <2> QED BY <2>1, <2>3 DEF OneID
  <1> QED BY <1>1, InitStream, NextStream, InitTracks, NextTracks, InitRecorded, NextRecorded,
             InitServed, NextServed, InitGrouped, NextGrouped, PTL DEF Spec
=============================================================================

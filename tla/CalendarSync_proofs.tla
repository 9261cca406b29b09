-------------------------- MODULE CalendarSync_proofs --------------------------
(***************************************************************************)
(* Theorems about CalendarSync, for any events, page size, number of       *)
(* changes and of failures.                                                *)
(***************************************************************************)
EXTENDS CalendarSync, TLAPS

(***************************************************************************)
(* Types                                                                   *)
(***************************************************************************)

SyncType == [pc : {"idle", "fetch", "persist"}, by : Messages \cup {Nobody},
             mode : {"incremental", "full"}, from : Positions, asOf : Tokens,
             todo : SUBSET Events, page : Rows, nextCursor : Tokens]

LEMMA ConstantTypes ==
  /\ MaxChanges \in Nat /\ MaxFailures \in Nat
  /\ 0 \in Positions /\ NoToken \in Tokens /\ Positions \subseteq Tokens
  /\ Positions \subseteq Nat /\ Messages \subseteq Positions
  BY BoundsAssumption DEF Positions, Tokens, Messages

\* A run that has not begun, and an empty page.
LEMMA IdleTyped ==
  /\ NoPage \in Rows
  /\ Idle \in SyncType /\ Idle.pc = "idle" /\ Idle.by = Nobody /\ Idle.page = NoPage
  /\ Idle.asOf = NoToken /\ Idle.todo = {} /\ Idle.from = 0
<1>1. NoPage \in Rows
  BY DEF NoPage, Rows
<1> QED
  BY <1>1, ConstantTypes DEF Idle, SyncType

\* A new run of message n, or of the worker.
LEMMA OpenTyped ==
  ASSUME TypeOK, NEW n \in Messages \cup {Nobody}, Open(n)
  PROVE  /\ sync' \in SyncType /\ sync'.pc = "fetch" /\ sync'.by = n /\ sync'.asOf = NoToken
         /\ sync'.todo = {} /\ sync'.page = NoPage
         /\ sync'.mode = "incremental" => token # NoToken /\ sync'.from = token
         /\ sync'.from \in {token, 0}
         /\ sync.pc = "idle"
<1>1. PICK mode \in {"incremental", "full"} :
        /\ mode = "incremental" => token # NoToken
        /\ sync' = [Idle EXCEPT !.pc = "fetch", !.by = n, !.mode = mode, !.from = From(mode)]
  BY DEF Open
<1>2. From(mode) \in Positions /\ From(mode) \in {token, 0}
  BY <1>1, ConstantTypes DEF From, TypeOK, Tokens
<1>3. mode = "incremental" => From(mode) = token
  BY DEF From
<1>4. sync' \in SyncType
  BY <1>1, <1>2, IdleTyped DEF SyncType
<1> QED
  BY <1>1, <1>2, <1>3, <1>4, IdleTyped DEF SyncType, Open

\* A run that falls back to a full listing.
LEMMA FallBackTyped ==
  ASSUME TypeOK, FallBack
  PROVE  /\ sync' \in SyncType /\ sync'.pc = "fetch" /\ sync'.by = sync.by
         /\ sync'.asOf = NoToken /\ sync'.todo = {} /\ sync'.page = NoPage
         /\ sync'.mode = "full" /\ sync'.from = 0
<1>1. sync' = [Idle EXCEPT !.pc = "fetch", !.by = sync.by, !.mode = "full"]
  BY DEF FallBack
<1>2. sync.by \in Messages \cup {Nobody}
  BY DEF TypeOK
<1> QED
  BY <1>1, <1>2, IdleTyped DEF SyncType

\* What a page makes of the run.
LEMMA FetchTyped ==
  ASSUME TypeOK, NEW es \in SUBSET Due,
         sync' = [sync EXCEPT
            !.pc = "persist",
            !.asOf = AsOf,
            !.todo = Due \ es,
            !.page = [e \in Events |-> IF e \in es /\ Usable(e) THEN Normalized(e) ELSE NoRow],
            !.nextCursor = NextCursor(Due = es)]
  PROVE  /\ sync' \in SyncType /\ sync'.pc = "persist"
         /\ sync'.by = sync.by /\ sync'.mode = sync.mode /\ sync'.from = sync.from
         /\ sync'.asOf = AsOf /\ sync'.todo = Due \ es
         /\ sync'.page = [e \in Events |-> IF e \in es /\ Usable(e) THEN Normalized(e) ELSE NoRow]
         /\ sync'.nextCursor = IF Due = es THEN AsOf ELSE NoToken
         /\ AsOf \in Positions
<1>1. sync \in SyncType
  BY DEF TypeOK, SyncType
<1>2. AsOf \in Positions /\ AsOf \in Tokens
  BY <1>1, ConstantTypes DEF AsOf, Opening, TypeOK, SyncType, Tokens
<1>3. NextCursor(Due = es) \in Tokens /\ NextCursor(Due = es) = IF Due = es THEN AsOf ELSE NoToken
  BY <1>2, ConstantTypes DEF NextCursor
<1>4. Due \in SUBSET Events
  BY <1>1 DEF Due, SyncType
<1>5. [e \in Events |-> IF e \in es /\ Usable(e) THEN Normalized(e) ELSE NoRow] \in Rows
  <2>1. \A e \in es : Normalized(e) \in [status : Statuses, version : Positions]
    BY <1>4 DEF Normalized, Due, Listed, TypeOK
  <2> QED
    BY <2>1 DEF Rows
<1> HIDE DEF NextCursor, Due, AsOf, Usable, Normalized
<1> QED
  BY <1>1, <1>2, <1>3, <1>4, <1>5 DEF SyncType

LEMMA ProcessedTyped ==
  ASSUME TypeOK
  PROVE  Processed \in [Messages -> {"unsent", "sent", "handled", "processed"}]
  BY DEF TypeOK, Processed

LEMMA TypeInit == Init => TypeOK
  BY ConstantTypes, IdleTyped DEF Init, TypeOK, SyncType, Times, Statuses

LEMMA TypeNext == TypeOK /\ [Next]_vars => TypeOK'
<1> SUFFICES ASSUME TypeOK, [Next]_vars PROVE TypeOK'
  OBVIOUS
<1>0. sync \in SyncType
  BY DEF TypeOK, SyncType
<1>1. CASE WorkerRun
  <2>1. sync' \in SyncType
    BY <1>1, OpenTyped DEF WorkerRun
  <2> QED
    BY <1>1, <2>1 DEF WorkerRun, google, TypeOK, SyncType
<1>2. CASE FetchPage
  <2>1. sync' \in SyncType
    BY <1>2, FetchTyped DEF FetchPage
  <2> QED
    BY <1>2, <2>1 DEF FetchPage, google, TypeOK, SyncType
<1>3. CASE PersistPage
  <2>1. row' \in Rows
    BY <1>0, <1>3 DEF PersistPage, TypeOK, SyncType, Rows
  <2>2. token' \in Tokens
    BY <1>0, <1>3 DEF PersistPage, TypeOK, SyncType
  <2>3. sync' \in SyncType
    BY <1>0, <1>3, IdleTyped DEF PersistPage, SyncType
  <2>4. poke' \in [Messages -> {"unsent", "sent", "handled", "processed"}]
    BY <1>3, ProcessedTyped DEF PersistPage, TypeOK
  <2> QED
    BY <1>3, <2>1, <2>2, <2>3, <2>4 DEF PersistPage, google, TypeOK, SyncType
<1>4. CASE FallBack
  <2>1. sync' \in SyncType
    BY <1>4, FallBackTyped
  <2>2. failures' \in 0 .. MaxFailures
    BY <1>4, ConstantTypes DEF FallBack, TypeOK
  <2> QED
    BY <1>4, <2>1, <2>2, ConstantTypes DEF FallBack, google, TypeOK, SyncType
<1>5. CASE Fail
  <2>1. failures' \in 0 .. MaxFailures
    BY <1>5, ConstantTypes DEF Fail, TypeOK
  <2>2. unserved' \subseteq Messages
    BY <1>0, <1>5 DEF Fail, TypeOK, SyncType
  <2> QED
    BY <1>5, <2>1, <2>2, IdleTyped, ProcessedTyped DEF Fail, google, TypeOK, SyncType
<1>6. CASE Die
  <2>1. failures' \in 0 .. MaxFailures
    BY <1>6, ConstantTypes DEF Die, TypeOK
  <2>2. poke' \in [Messages -> {"unsent", "sent", "handled", "processed"}]
    BY <1>6 DEF Die, TypeOK
  <2> QED
    BY <1>6, <2>1, <2>2, IdleTyped DEF Die, google, TypeOK, SyncType
<1>7. ASSUME NEW n \in Messages, HandlePoke(n)
      PROVE  TypeOK'
  <2>1. sync' \in SyncType
    BY <1>7, OpenTyped DEF HandlePoke
  <2>2. poke' \in [Messages -> {"unsent", "sent", "handled", "processed"}]
    BY <1>7 DEF HandlePoke, WhileRunning, TypeOK
  <2> QED
    BY <1>7, <2>1, <2>2 DEF HandlePoke, google, TypeOK, SyncType
<1>8. ASSUME NEW n \in Messages, SkipPoke(n)
      PROVE  TypeOK'
  <2>1. poke' \in [Messages -> {"unsent", "sent", "handled", "processed"}]
    BY <1>8 DEF SkipPoke, TypeOK
  <2>2. unserved' \subseteq Messages
    BY <1>8 DEF SkipPoke, TypeOK
  <2> QED
    BY <1>8, <2>1, <2>2 DEF SkipPoke, google, TypeOK
<1>9. ASSUME NEW e \in Events, NEW status \in Statuses, NEW t \in Times, Change(e, status, t)
      PROVE  TypeOK'
  <2>1. head + 1 \in Positions /\ head + 1 \in Messages
    BY <1>9, ConstantTypes DEF Change, TypeOK, Positions, Messages
  <2>2. /\ event' \in [Events -> Statuses \cup {"none", "purged"}]
        /\ changed' \in [Events -> Positions]
        /\ times' \in [Events -> Times]
        /\ poke' \in [Messages -> {"unsent", "sent", "handled", "processed"}]
    BY <1>9, <2>1 DEF Change, TypeOK
  <2> QED
    BY <1>9, <2>1, <2>2 DEF Change, TypeOK
<1>10. ASSUME NEW e \in Events, Purge(e)
       PROVE  TypeOK'
  <2>1. event' \in [Events -> Statuses \cup {"none", "purged"}]
    BY <1>10 DEF Purge, TypeOK
  <2>2. oldest' \in Positions /\ missed' \subseteq Events
    BY <1>10 DEF Purge, TypeOK
  <2> QED
    BY <1>10, <2>1, <2>2 DEF Purge, TypeOK
<1>11. CASE UNCHANGED vars
  BY <1>11 DEF vars, google, TypeOK
<1> QED
  BY <1>1, <1>2, <1>3, <1>4, <1>5, <1>6, <1>7, <1>8, <1>9, <1>10, <1>11
     DEF Next, RunStep, Put, Cancel, Statuses, Times

\* For any calendar and any number of changes and failures: the tables, the messages
\* and the run stay within their types (google-calendar-event-provider.ts).
THEOREM TypeCorrect == Spec => []TypeOK
  BY TypeInit, TypeNext, PTL DEF Spec

(***************************************************************************)
(* The notifications                                                       *)
(***************************************************************************)

\* The message is marked processed by the end of a run of its own.
Served(n) == poke[n] = "processed" /\ n \notin unserved

\* Nothing the engine holds is ahead of the calendar; an open listing is no older
\* than the token, than the message behind its run and than any message served
\* before; only its last page has a token.
TokenInv ==
  /\ token <= head /\ sync.by <= head /\ sync.from <= head
  /\ \A n \in Messages : poke[n] # "unsent" => n <= head
  /\ sync.asOf # NoToken =>
       /\ token <= sync.asOf /\ sync.asOf <= head /\ sync.by <= sync.asOf
       /\ \A n \in Messages : Served(n) => n <= sync.asOf
  /\ sync.pc = "persist" =>
       /\ sync.asOf # NoToken
       /\ sync.nextCursor = IF sync.todo = {} THEN sync.asOf ELSE NoToken
  /\ PokesServed

\* The numbers that the invariants compare.
LEMMA Numbers ==
  ASSUME TypeOK
  PROVE  /\ head \in Nat /\ token \in Int /\ sync.by \in Nat /\ sync.from \in Nat
         /\ sync.asOf \in Int /\ oldest \in Nat /\ NoToken = -1
         /\ \A n \in Messages : n \in Nat
         /\ \A e \in Events : changed[e] \in Nat
  BY ConstantTypes DEF TypeOK, Tokens, Positions, Messages, Nobody, NoToken

LEMMA TokenInit == Init => TokenInv
  BY IdleTyped, ConstantTypes DEF Init, TokenInv, PokesServed, Served, NoToken, Nobody

\* Before its first page a run only has to be no newer than the calendar.
LEMMA OpeningKeepsTokens ==
  ASSUME TypeOK, TokenInv, sync'.asOf = NoToken, sync'.pc # "persist",
         sync'.by <= head, sync'.from <= head,
         token' \in {token, NoToken}, UNCHANGED head,
         \A n \in Messages : poke'[n] # "unsent" => poke[n] # "unsent",
         \A n \in Messages : Served(n)' => Served(n)
  PROVE  TokenInv'
<1>1. token' <= head
  BY Numbers DEF TokenInv
<1>2. PokesServed'
  BY DEF TokenInv, PokesServed, Served
<1> QED
  BY <1>1, <1>2 DEF TokenInv

LEMMA OpenKeepsTokens ==
  ASSUME TypeOK, TokenInv, NEW n \in Messages \cup {Nobody}, Open(n),
         n <= head, UNCHANGED <<google, token, unserved>>,
         poke' = poke \/ (n # Nobody /\ poke' = [poke EXCEPT ![n] = "handled"]
                                     /\ poke[n] = "sent")
  PROVE  TokenInv'
<1>1. /\ sync'.pc = "fetch" /\ sync'.by = n /\ sync'.asOf = NoToken
      /\ sync'.from \in {token, 0}
  BY OpenTyped
<1>2. sync'.from <= head
  BY <1>1, Numbers DEF TokenInv
<1>3. \A m \in Messages : poke'[m] # "unsent" => poke[m] # "unsent"
  BY DEF TypeOK
<1>4. \A m \in Messages : Served(m)' => Served(m)
  BY DEF Served, TypeOK
<1>5. UNCHANGED head /\ token' = token
  BY DEF google
<1>6. sync'.by <= head /\ sync'.pc # "persist"
  BY <1>1
<1> QED
  BY <1>1, <1>2, <1>3, <1>4, <1>5, <1>6, OpeningKeepsTokens

\* The run behind a message ends with a listing that was opened after the message
\* was sent.
LEMMA PersistKeepsTokens ==
  ASSUME TypeOK, TokenInv, PersistPage
  PROVE  TokenInv'
<1>1. sync \in SyncType /\ sync.pc = "persist" /\ UNCHANGED <<head, unserved>>
  BY DEF PersistPage, TypeOK, SyncType, google
<1>2. /\ sync.asOf # NoToken
      /\ sync.nextCursor = IF sync.todo = {} THEN sync.asOf ELSE NoToken
  BY <1>1 DEF TokenInv
<1>3. CASE sync.todo # {}
  <2>1. sync' = [sync EXCEPT !.pc = "fetch", !.page = NoPage] /\ UNCHANGED <<poke, token>>
    BY <1>2, <1>3 DEF PersistPage
  <2>2. /\ sync'.pc = "fetch" /\ sync'.by = sync.by /\ sync'.from = sync.from
        /\ sync'.asOf = sync.asOf
    BY <1>1, <2>1 DEF SyncType
  <2>3. \A n : Served(n)' <=> Served(n)
    BY <1>1, <2>1 DEF Served
  <2> QED
    BY <1>1, <2>1, <2>2, <2>3 DEF TokenInv, PokesServed
<1>4. CASE sync.todo = {}
  <2>1. sync' = Idle /\ poke' = Processed /\ token' = sync.asOf
    BY <1>2, <1>4 DEF PersistPage
  <2>2. \A n \in Messages : Served(n)' => Served(n) \/ n = sync.by
    BY <1>1, <2>1 DEF Served, Processed, TypeOK
  <2>3. \A n \in Messages : Served(n)' => n <= token'
    BY <1>2, <2>1, <2>2 DEF TokenInv
  <2>4. \A n \in Messages : poke'[n] # "unsent" => n <= head
    <3> SUFFICES ASSUME NEW n \in Messages, poke'[n] # "unsent" PROVE n <= head
      OBVIOUS
    <3>1. CASE n = sync.by
      BY <3>1 DEF TokenInv
    <3>2. CASE n # sync.by
      BY <2>1, <3>2 DEF Processed, TypeOK, TokenInv
    <3> QED
      BY <3>1, <3>2
  <2>5. PokesServed'
    BY <2>3, Numbers, TypeNext DEF PokesServed, Served, Next, RunStep
  <2>6. token' <= head /\ 0 <= head
    BY <1>2, <2>1, Numbers DEF TokenInv
  <2> QED
    BY <1>1, <2>1, <2>4, <2>5, <2>6, IdleTyped DEF TokenInv, Nobody
<1> QED
  BY <1>3, <1>4

LEMMA FetchKeepsTokens ==
  ASSUME TypeOK, TokenInv, FetchPage
  PROVE  TokenInv'
<1>1. PICK es \in SUBSET Due :
        sync' = [sync EXCEPT
            !.pc = "persist",
            !.asOf = AsOf,
            !.todo = Due \ es,
            !.page = [e \in Events |-> IF e \in es /\ Usable(e) THEN Normalized(e) ELSE NoRow],
            !.nextCursor = NextCursor(Due = es)]
  BY DEF FetchPage
<1>2. /\ sync'.pc = "persist" /\ sync'.by = sync.by /\ sync'.from = sync.from
      /\ sync'.asOf = AsOf /\ sync'.todo = Due \ es
      /\ sync'.nextCursor = IF Due = es THEN AsOf ELSE NoToken
      /\ AsOf \in Positions
  BY <1>1, FetchTyped
<1>3. sync'.nextCursor = IF sync'.todo = {} THEN sync'.asOf ELSE NoToken
  BY <1>2
<1>4. UNCHANGED <<head, poke, token, unserved>>
  BY DEF FetchPage, google
<1>5. \A n : Served(n)' <=> Served(n)
  BY <1>4 DEF Served
<1>6. /\ token <= AsOf /\ AsOf <= head /\ sync.by <= AsOf
      /\ \A n \in Messages : Served(n) => n <= AsOf
  <2>1. CASE Opening
    BY <2>1, Numbers DEF AsOf, TokenInv, Served
  <2>2. CASE ~Opening
    BY <2>2 DEF AsOf, Opening, TokenInv
  <2> QED
    BY <2>1, <2>2
<1>7. sync'.asOf # NoToken
  BY <1>2, ConstantTypes DEF NoToken
<1>8. PokesServed'
  BY <1>4 DEF PokesServed, TokenInv
<1> QED
  BY <1>2, <1>3, <1>4, <1>5, <1>6, <1>7, <1>8 DEF TokenInv

\* No step lets the token fall behind a message that was served.
LEMMA TokenNext == TypeOK /\ TokenInv /\ [Next]_vars => TokenInv'
<1> SUFFICES ASSUME TypeOK, TokenInv, [Next]_vars PROVE TokenInv'
  OBVIOUS
<1>0. Nobody <= head
  BY Numbers DEF Nobody
<1>1. CASE WorkerRun
  BY <1>0, <1>1, OpenKeepsTokens DEF WorkerRun
<1>2. CASE FetchPage
  BY <1>2, FetchKeepsTokens
<1>3. CASE PersistPage
  BY <1>3, PersistKeepsTokens
<1>4. CASE FallBack
  <2>1. /\ sync'.pc = "fetch" /\ sync'.by = sync.by /\ sync'.asOf = NoToken
        /\ sync'.from = 0
    BY <1>4, FallBackTyped
  <2>2. token' = NoToken /\ UNCHANGED <<head, poke, unserved>>
    BY <1>4 DEF FallBack, google
  <2>3. \A n \in Messages : Served(n)' <=> Served(n)
    BY <2>2 DEF Served
  <2>4. sync'.by <= head /\ sync'.from <= head
    BY <2>1, Numbers DEF TokenInv
  <2> QED
    BY <2>1, <2>2, <2>3, <2>4, OpeningKeepsTokens
<1>5. CASE Fail
  <2>1. sync' = Idle /\ UNCHANGED <<head, token>>
    BY <1>5 DEF Fail, google
  <2>a. \A n \in Messages : poke'[n] # poke[n] => n = sync.by
    BY <1>5 DEF Fail, Processed, TypeOK
  <2>b. unserved' = unserved \cup ({sync.by} \ {Nobody}) /\ Nobody \notin Messages
    BY <1>5 DEF Fail, Nobody, Messages
  <2>2. \A n \in Messages : poke'[n] # poke[n] => n = sync.by /\ n \in unserved'
    BY <2>a, <2>b
  <2>3. \A n \in Messages : Served(n)' => Served(n)
    BY <2>b, <2>2 DEF Served
  <2>4. \A n \in Messages : poke'[n] # "unsent" => n <= head
    <3> SUFFICES ASSUME NEW n \in Messages, poke'[n] # "unsent" PROVE n <= head
      OBVIOUS
    <3>1. poke'[n] # poke[n] \/ poke[n] # "unsent"
      OBVIOUS
    <3> QED
      BY <2>a, <3>1 DEF TokenInv
  <2>5. token <= head /\ PokesServed'
    BY <2>1, <2>3 DEF TokenInv, PokesServed, Served
  <2> QED
    BY <1>0, <2>1, <2>4, <2>5, IdleTyped DEF TokenInv, Nobody
<1>6. CASE Die
  <2>1. sync' = Idle /\ UNCHANGED <<head, token, unserved>>
    BY <1>6 DEF Die, google
  <2>2. \A n \in Messages : poke'[n] # poke[n] => n = sync.by /\ poke'[n] = "sent"
    BY <1>6 DEF Die, TypeOK
  <2>3. \A n \in Messages : Served(n)' => Served(n)
    BY <2>1, <2>2 DEF Served
  <2>4. \A n \in Messages : poke'[n] # "unsent" => n <= head
    BY <2>2 DEF TokenInv
  <2>5. token <= head /\ PokesServed'
    BY <2>1, <2>3 DEF TokenInv, PokesServed, Served
  <2> QED
    BY <1>0, <2>1, <2>4, <2>5, IdleTyped DEF TokenInv, Nobody
<1>7. ASSUME NEW n \in Messages, HandlePoke(n)
      PROVE  TokenInv'
  <2>1. n <= head /\ n # Nobody
    BY <1>7 DEF HandlePoke, TokenInv, Nobody, Messages
  <2>2. poke' = [poke EXCEPT ![n] = "handled"] /\ poke[n] = "sent" /\ Open(n)
        /\ UNCHANGED <<google, token, unserved>>
    BY <1>7 DEF HandlePoke, WhileRunning
  <2> QED
    BY <2>1, <2>2, OpenKeepsTokens
<1>8. ASSUME NEW n \in Messages, SkipPoke(n)
      PROVE  TokenInv'
  <2>1. \A m \in Messages : poke'[m] # "unsent" => poke[m] # "unsent"
    BY <1>8 DEF SkipPoke, TypeOK
  <2>2. n \in unserved' /\ unserved \subseteq unserved'
    BY <1>8 DEF SkipPoke
  <2>3. \A m \in Messages : Served(m)' => Served(m)
    BY <1>8, <2>2 DEF SkipPoke, Served, TypeOK
  <2>4. UNCHANGED <<head, token, sync>>
    BY <1>8 DEF SkipPoke, google
  <2>5. PokesServed'
    BY <2>3, <2>4 DEF TokenInv, PokesServed, Served
  <2> QED
    BY <2>1, <2>3, <2>4, <2>5 DEF TokenInv
<1>9. ASSUME NEW e \in Events, NEW status \in Statuses, NEW t \in Times, Change(e, status, t)
      PROVE  TokenInv'
  <2>1. head' = head + 1 /\ UNCHANGED <<token, sync, unserved>>
    BY <1>9 DEF Change
  <2>2. \A n \in Messages : poke'[n] # "unsent" => n <= head + 1
    BY <1>9, Numbers DEF Change, TypeOK, TokenInv
  <2>3. \A n \in Messages : Served(n)' => Served(n)
    BY <1>9 DEF Change, Served, TypeOK
  <2>4. token <= head + 1 /\ sync.by <= head + 1 /\ sync.from <= head + 1
        /\ (sync.asOf # NoToken => sync.asOf <= head + 1)
    BY Numbers DEF TokenInv
  <2>5. PokesServed'
    BY <2>1, <2>3 DEF TokenInv, PokesServed, Served
  <2> QED
    BY <2>1, <2>2, <2>3, <2>4, <2>5 DEF TokenInv
<1>10. ASSUME NEW e \in Events, Purge(e)
       PROVE  TokenInv'
  BY <1>10 DEF Purge, TokenInv, PokesServed, Served
<1>11. CASE UNCHANGED vars
  BY <1>11 DEF vars, google, TokenInv, PokesServed, Served
<1> QED
  BY <1>1, <1>2, <1>3, <1>4, <1>5, <1>6, <1>7, <1>8, <1>9, <1>10, <1>11
     DEF Next, RunStep, Put, Cancel, Statuses, Times

\* For any number of notifications, lost, late, repeated or handled while runs die: a
\* message that is marked processed by the end of its own run has been acted on.
THEOREM NotificationsServed == Spec => []PokesServed
<1>1. TokenInv => PokesServed
  BY DEF TokenInv
<1> QED
  BY <1>1, TypeInit, TypeNext, TokenInit, TokenNext, PTL DEF Spec

(***************************************************************************)
(* The rows                                                                *)
(***************************************************************************)

\* An event that a listing shows and normalize can read, as a tombstone or not.
Presented(e) == Listed(e) /\ Usable(e)

\* The row once the page in hand is saved.
Shown(e) == IF sync.page[e] # NoRow THEN sync.page[e] ELSE row[e]

\* A purged event has no more to come, and its row was cancelled if it was seen.
PurgedRows ==
  \A e \in Events :
    /\ e \in missed => event[e] = "purged"
    /\ event[e] = "purged" => /\ sync.page[e] = NoRow
                              /\ e \in missed \/ row[e].status = "cancelled"

\* No page is in hand except between its fetch and its save.
PageInHand == sync.pc # "persist" => sync.page = NoPage

\* The changes up to a position have reached their rows.
StoredUpTo(n) ==
  \A e \in Events : Presented(e) /\ changed[e] <= n => row[e] = Normalized(e)

BehindToken == StoredUpTo(token)

\* An incremental listing leaves out only what was behind its token.
BehindFrom ==
  sync.pc = "fetch" /\ sync.asOf = NoToken /\ sync.mode = "incremental" => StoredUpTo(sync.from)

\* An open listing has shown everything it is not yet to show, as it is now.
BehindListing ==
  sync.asOf # NoToken =>
    \A e \in Events : Presented(e) /\ changed[e] <= sync.asOf /\ e \notin sync.todo =>
                        Shown(e) = Normalized(e)

\* What is still to come is not in hand, and the filter lets it through.
StillToCome ==
  \A e \in sync.todo :
    sync.page[e] = NoRow /\ (sync.mode = "incremental" => changed[e] > sync.from)

RowInv ==
  PurgedRows /\ PageInHand /\ BehindToken /\ BehindFrom /\ BehindListing /\ StillToCome

LEMMA RowInit == Init => RowInv
<1> SUFFICES ASSUME Init PROVE RowInv
  OBVIOUS
<1>1. sync = Idle /\ sync.page = NoPage /\ sync.todo = {} /\ sync.asOf = NoToken /\ sync.pc = "idle"
  BY IdleTyped DEF Init
<1>2. \A e \in Events : event[e] = "none" /\ e \notin missed
  BY DEF Init
<1> QED
  BY <1>1, <1>2
     DEF RowInv, PurgedRows, PageInHand, BehindToken, StoredUpTo, BehindFrom, BehindListing,
         StillToCome, Presented, Listed, Statuses

\* A step that leaves the calendar and the rows alone and ends or opens a run: what the
\* new run takes for granted is the token it starts from.
LEMMA NewRunKeepsRows ==
  ASSUME TypeOK, RowInv,
         UNCHANGED <<event, changed, times, row, missed>>, token' \in {token, NoToken},
         sync'.pc # "persist", sync'.page = NoPage, sync'.todo = {}, sync'.asOf = NoToken,
         sync'.pc = "fetch" /\ sync'.mode = "incremental" => sync'.from = token
  PROVE  RowInv'
<1>1. \A e \in Events : (Presented(e)' <=> Presented(e)) /\ Normalized(e)' = Normalized(e)
  BY DEF Presented, Listed, Usable, Normalized
<1>2. PurgedRows'
  BY DEF RowInv, PurgedRows, NoPage
<1>3. ~ \E e \in Events : changed[e] <= NoToken
  BY Numbers
<1>4. BehindToken'
  BY <1>1, <1>3 DEF RowInv, BehindToken, StoredUpTo
<1>5. BehindFrom'
  BY <1>1 DEF RowInv, BehindToken, StoredUpTo, BehindFrom
<1> QED
  BY <1>2, <1>4, <1>5 DEF RowInv, PageInHand, BehindListing, StillToCome

LEMMA OpenKeepsRows ==
  ASSUME TypeOK, RowInv, NEW n \in Messages \cup {Nobody}, Open(n),
         UNCHANGED <<google, row, token, missed>>
  PROVE  RowInv'
<1>1. /\ sync'.pc = "fetch" /\ sync'.asOf = NoToken /\ sync'.todo = {} /\ sync'.page = NoPage
      /\ sync'.mode = "incremental" => token # NoToken /\ sync'.from = token
  BY OpenTyped
<1>2. UNCHANGED <<event, changed, times, row, missed>> /\ token' = token
  BY DEF google
<1> QED
  BY <1>1, <1>2, NewRunKeepsRows

\* What the filter of a listing leaves out has reached its row before.
LEMMA FetchKeepsRows ==
  ASSUME TypeOK, TokenInv, RowInv, FetchPage
  PROVE  RowInv'
<1>1. PICK es \in SUBSET Due :
        sync' = [sync EXCEPT
            !.pc = "persist",
            !.asOf = AsOf,
            !.todo = Due \ es,
            !.page = [e \in Events |-> IF e \in es /\ Usable(e) THEN Normalized(e) ELSE NoRow],
            !.nextCursor = NextCursor(Due = es)]
  BY DEF FetchPage
<1>2. /\ sync'.pc = "persist" /\ sync'.mode = sync.mode /\ sync'.from = sync.from
      /\ sync'.asOf = AsOf /\ sync'.todo = Due \ es
      /\ sync'.page = [e \in Events |-> IF e \in es /\ Usable(e) THEN Normalized(e) ELSE NoRow]
      /\ AsOf \in Positions
  BY <1>1, FetchTyped
<1>3. UNCHANGED <<event, changed, times, row, token, missed>> /\ sync.pc = "fetch"
  BY DEF FetchPage, google
<1>4. \A e \in Events : /\ (Presented(e)' <=> Presented(e)) /\ Normalized(e)' = Normalized(e)
                        /\ (e \notin es => sync'.page[e] = NoRow)
                        /\ (e \in es /\ Usable(e) => sync'.page[e] = Normalized(e))
  BY <1>2, <1>3 DEF Presented, Listed, Usable, Normalized
<1>5. \A e \in Events : e \in es => event[e] \in Statuses
  BY DEF Due, Listed
<1>6. PurgedRows'
  BY <1>3, <1>4, <1>5 DEF RowInv, PurgedRows, Statuses
<1>7. BehindToken'
  BY <1>3, <1>4 DEF RowInv, BehindToken, StoredUpTo
<1>8. BehindListing'
  <2> SUFFICES ASSUME NEW e \in Events, Presented(e), changed[e] <= AsOf, e \notin Due \ es
               PROVE  Shown(e)' = Normalized(e)
    BY <1>2, <1>3, <1>4 DEF BehindListing
  <2>1. CASE e \in es
    <3>1. sync'.page[e] = Normalized(e) /\ Normalized(e).status \in Statuses
      BY <1>4, <2>1 DEF Presented, Listed, Normalized
    <3>2. sync'.page[e] # NoRow
      BY <3>1 DEF NoRow, Statuses
    <3> QED
      BY <3>1, <3>2 DEF Shown
  <2>2. CASE e \notin Due
    <3>1. sync'.page[e] = NoRow
      BY <1>4, <2>2
    <3>2. Listed(e)
      BY DEF Presented
    <3>3. row[e] = Normalized(e)
      <4>1. CASE Opening
        <5>1. sync.mode = "incremental" /\ ~(changed[e] > sync.from)
          BY <2>2, <3>2, <4>1 DEF Due
        <5>2. changed[e] <= sync.from
          BY <5>1, Numbers
        <5> QED
          BY <1>3, <4>1, <5>1, <5>2 DEF Opening, RowInv, BehindFrom, StoredUpTo
      <4>2. CASE ~Opening
        <5>1. e \notin sync.todo
          BY <2>2, <3>2, <4>2 DEF Due, RowInv, StillToCome
        <5>2. AsOf = sync.asOf /\ sync.asOf # NoToken /\ sync.page = NoPage
          BY <1>3, <4>2 DEF AsOf, Opening, RowInv, PageInHand
        <5> QED
          BY <5>1, <5>2 DEF RowInv, BehindListing, Shown, NoPage
      <4> QED
        BY <4>1, <4>2
    <3> QED
      BY <1>3, <3>1, <3>3 DEF Shown
  <2> QED
    BY <2>1, <2>2
<1>9. StillToCome'
  BY <1>2, <1>3, <1>4 DEF StillToCome, Due, Opening, TypeOK, SyncType
<1> QED
  BY <1>2, <1>6, <1>7, <1>8, <1>9 DEF RowInv, PageInHand, BehindFrom

\* The token moves with the last page only, when nothing is still to come.
LEMMA PersistKeepsRows ==
  ASSUME TypeOK, TokenInv, RowInv, PersistPage
  PROVE  RowInv'
<1>1. sync \in SyncType /\ sync.pc = "persist"
      /\ UNCHANGED <<event, changed, times, missed>>
  BY DEF PersistPage, TypeOK, SyncType, google
<1>2. /\ sync.asOf # NoToken /\ token <= sync.asOf
      /\ sync.nextCursor = IF sync.todo = {} THEN sync.asOf ELSE NoToken
  BY <1>1 DEF TokenInv
<1>3. \A e \in Events : /\ row'[e] = Shown(e)
                        /\ sync.page[e] = NoRow => row'[e] = row[e]
  BY DEF PersistPage, Shown
<1>4. \A e \in Events : (Presented(e)' <=> Presented(e)) /\ Normalized(e)' = Normalized(e)
  BY <1>1 DEF Presented, Listed, Usable, Normalized
<1>5. \A e \in Events : Presented(e) /\ changed[e] <= sync.asOf /\ e \notin sync.todo =>
                          row'[e] = Normalized(e)
  BY <1>2, <1>3 DEF RowInv, BehindListing
<1>6. PurgedRows' \/ sync'.page # NoPage
  BY <1>1, <1>3 DEF RowInv, PurgedRows, NoPage
<1>7. CASE sync.todo # {}
  <2>1. sync' = [sync EXCEPT !.pc = "fetch", !.page = NoPage] /\ UNCHANGED token
    BY <1>2, <1>7 DEF PersistPage
  <2>2. /\ sync'.pc = "fetch" /\ sync'.page = NoPage /\ sync'.mode = sync.mode
        /\ sync'.from = sync.from /\ sync'.asOf = sync.asOf /\ sync'.todo = sync.todo
    BY <1>1, <2>1 DEF SyncType
  <2>3. BehindToken'
    <3> SUFFICES ASSUME NEW e \in Events, Presented(e), changed[e] <= token
                 PROVE  row'[e] = Normalized(e)
      BY <1>1, <1>4, <2>1 DEF BehindToken, StoredUpTo
    <3>1. changed[e] <= sync.asOf
      BY <1>2, Numbers
    <3>2. CASE e \in sync.todo
      BY <1>3, <3>2 DEF RowInv, StillToCome, BehindToken, StoredUpTo
    <3> QED
      BY <1>5, <3>1, <3>2
  <2>4. \A e \in Events : Shown(e)' = row'[e]
    BY <2>2 DEF Shown, NoPage
  <2>5. BehindListing'
    BY <1>1, <1>4, <1>5, <2>2, <2>4 DEF BehindListing
  <2>6. StillToCome'
    BY <1>1, <2>2 DEF RowInv, StillToCome, NoPage, SyncType
  <2> QED
    BY <1>2, <1>6, <2>2, <2>3, <2>5, <2>6 DEF RowInv, PageInHand, BehindFrom
<1>8. CASE sync.todo = {}
  <2>1. sync' = Idle /\ token' = sync.asOf
    BY <1>2, <1>8 DEF PersistPage
  <2>2. BehindToken'
    BY <1>1, <1>4, <1>5, <1>8, <2>1 DEF BehindToken, StoredUpTo
  <2> QED
    BY <1>6, <2>1, <2>2, IdleTyped
       DEF RowInv, PageInHand, BehindFrom, BehindListing, StillToCome
<1> QED
  BY <1>7, <1>8

\* A change is ahead of everything that was listed or is being listed.
LEMMA ChangeKeepsRows ==
  ASSUME TypeOK, TokenInv, RowInv, NEW e \in Events, NEW status \in Statuses, NEW t \in Times,
         Change(e, status, t), event[e] # "purged"
  PROVE  RowInv'
<1>1. /\ UNCHANGED <<row, token, sync, missed>>
      /\ event' = [event EXCEPT ![e] = status]
      /\ changed' = [changed EXCEPT ![e] = head + 1]
      /\ times' = [times EXCEPT ![e] = t]
  BY DEF Change
<1>2. event'[e] = status /\ changed'[e] = head + 1
  BY <1>1 DEF TypeOK
<1>3. \A o \in Events : o # e => event'[o] = event[o] /\ changed'[o] = changed[o] /\ times'[o] = times[o]
  BY <1>1 DEF TypeOK
<1>4. \A o \in Events :
        o # e => (Presented(o)' <=> Presented(o)) /\ Normalized(o)' = Normalized(o)
  BY <1>3 DEF Presented, Listed, Usable, Normalized
<1>5. /\ ~(head + 1 <= token) /\ ~(head + 1 <= sync.from) /\ head + 1 > sync.from
      /\ sync.asOf # NoToken => ~(head + 1 <= sync.asOf)
  BY Numbers DEF TokenInv
<1>6. PurgedRows'
  BY <1>1, <1>2, <1>3 DEF RowInv, PurgedRows, Statuses
<1>7. BehindToken'
  BY <1>1, <1>2, <1>3, <1>4, <1>5 DEF RowInv, BehindToken, StoredUpTo
<1>8. BehindFrom'
  BY <1>1, <1>2, <1>3, <1>4, <1>5 DEF RowInv, BehindFrom, StoredUpTo
<1>9. \A o : Shown(o)' = Shown(o)
  BY <1>1 DEF Shown
<1>10. BehindListing'
  BY <1>1, <1>2, <1>3, <1>4, <1>5, <1>9 DEF RowInv, BehindListing
<1>11. StillToCome'
  BY <1>1, <1>2, <1>3, <1>5 DEF RowInv, StillToCome, TypeOK, SyncType
<1> QED
  BY <1>1, <1>6, <1>7, <1>8, <1>10, <1>11 DEF RowInv, PageInHand

\* A tombstone goes only when no listing is open; what no run had fetched is missed.
LEMMA PurgeKeepsRows ==
  ASSUME TypeOK, RowInv, NEW e \in Events, Purge(e)
  PROVE  RowInv'
<1>1. /\ UNCHANGED <<changed, times, row, token, sync>> /\ sync.pc = "idle"
      /\ event' = [event EXCEPT ![e] = "purged"]
      /\ missed' = IF row[e].status = "cancelled" THEN missed ELSE missed \cup {e}
  BY DEF Purge
<1>2. event'[e] = "purged" /\ \A o \in Events : o # e => event'[o] = event[o]
  BY <1>1 DEF TypeOK
<1>3. \A o \in Events : Presented(o)' => Presented(o) /\ Normalized(o)' = Normalized(o)
  BY <1>1, <1>2 DEF Presented, Listed, Usable, Normalized, Statuses
<1>4. \A o : Shown(o)' = Shown(o)
  BY <1>1 DEF Shown
<1>5. sync.page = NoPage
  BY <1>1 DEF RowInv, PageInHand
<1>6. PurgedRows'
  BY <1>1, <1>2, <1>5 DEF RowInv, PurgedRows, NoPage
<1>7. BehindToken' /\ BehindFrom'
  BY <1>1, <1>3 DEF RowInv, BehindToken, BehindFrom, StoredUpTo
<1>8. BehindListing'
  BY <1>1, <1>3, <1>4 DEF RowInv, BehindListing
<1> QED
  BY <1>1, <1>6, <1>7, <1>8 DEF RowInv, PageInHand, StillToCome

LEMMA RowNext == TypeOK /\ TokenInv /\ RowInv /\ [Next]_vars => RowInv'
<1> SUFFICES ASSUME TypeOK, TokenInv, RowInv, [Next]_vars PROVE RowInv'
  OBVIOUS
<1>1. CASE WorkerRun
  BY <1>1, OpenKeepsRows DEF WorkerRun
<1>2. CASE FetchPage
  BY <1>2, FetchKeepsRows
<1>3. CASE PersistPage
  BY <1>3, PersistKeepsRows
<1>4. CASE FallBack
  <2>1. /\ sync'.pc = "fetch" /\ sync'.asOf = NoToken /\ sync'.todo = {} /\ sync'.page = NoPage
        /\ sync'.mode = "full"
    BY <1>4, FallBackTyped
  <2>2. token' = NoToken /\ UNCHANGED <<event, changed, times, row, missed>>
    BY <1>4 DEF FallBack, google
  <2> QED
    BY <2>1, <2>2, NewRunKeepsRows
<1>5. CASE Fail \/ Die
  <2>1. sync' = Idle /\ token' = token /\ UNCHANGED <<event, changed, times, row, missed>>
    BY <1>5 DEF Fail, Die, google
  <2> QED
    BY <2>1, IdleTyped, NewRunKeepsRows
<1>6. ASSUME NEW n \in Messages, HandlePoke(n)
      PROVE  RowInv'
  BY <1>6, OpenKeepsRows DEF HandlePoke
<1>7. ASSUME UNCHANGED <<event, changed, times, row, token, sync, missed>>
      PROVE  RowInv'
  BY <1>7 DEF RowInv, PurgedRows, PageInHand, BehindToken, StoredUpTo, BehindFrom,
              BehindListing, StillToCome, Presented, Listed, Usable, Normalized, Shown
<1>8. ASSUME NEW n \in Messages, SkipPoke(n)
      PROVE  RowInv'
  BY <1>7, <1>8 DEF SkipPoke, google
<1>9. ASSUME NEW e \in Events, Put(e)
      PROVE  RowInv'
  BY <1>9, ChangeKeepsRows DEF Put, Statuses, Times
<1>10. ASSUME NEW e \in Events, Cancel(e)
       PROVE  RowInv'
  <2>1. PICK t \in Times : Change(e, "cancelled", t) /\ event[e] # "purged"
    BY <1>10 DEF Cancel
  <2> QED
    BY <2>1, ChangeKeepsRows DEF Statuses
<1>11. ASSUME NEW e \in Events, Purge(e)
       PROVE  RowInv'
  BY <1>11, PurgeKeepsRows
<1>12. CASE UNCHANGED vars
  BY <1>7, <1>12 DEF vars, google
<1> QED
  BY <1>1, <1>2, <1>3, <1>4, <1>5, <1>6, <1>8, <1>9, <1>10, <1>11, <1>12 DEF Next, RunStep

\* For any interleaving of changes, purges, listings and failed runs: a confirmed row of
\* an event deleted behind the syncToken has one of two causes, a tombstone without
\* times or one purged unseen (normalize, validate and the fallback after 410).
THEOREM ZombiesExplained == Spec => []ZombieRowsExplained
<1>1. TypeOK /\ RowInv => ZombieRowsExplained
  <2> SUFFICES ASSUME TypeOK, RowInv, NEW e \in Events,
                      row[e].status = "confirmed", Gone(e), changed[e] <= token
               PROVE  times[e] = "neither" \/ e \in missed
    BY DEF ZombieRowsExplained
  <2>1. CASE event[e] = "purged"
    BY <2>1 DEF RowInv, PurgedRows
  <2>2. CASE event[e] = "cancelled"
    <3>1. Normalized(e).status = "cancelled"
      BY <2>2 DEF Normalized
    <3>2. ~Presented(e)
      BY <3>1 DEF RowInv, BehindToken, StoredUpTo
    <3> QED
      BY <2>2, <3>2 DEF Presented, Listed, Statuses, Usable, TypeOK, Times
  <2> QED
    BY <2>1, <2>2 DEF Gone
<1> QED
  BY <1>1, TypeInit, TypeNext, TokenInit, TokenNext, RowInit, RowNext, PTL DEF Spec

(***************************************************************************)
(* What the token stands for                                               *)
(***************************************************************************)

\* Nothing in the tables or in hand is newer than the calendar, and nothing in hand is
\* older than its row; an event that takes place has its times.
Versions ==
  \A e \in Events :
    /\ row[e].version <= changed[e] /\ changed[e] <= head
    /\ sync.page[e] # NoRow =>
         row[e].version <= sync.page[e].version /\ sync.page[e].version <= changed[e]
    /\ event[e] = "confirmed" => times[e] = "start"

\* The numbers of the versions.
LEMMA VersionNumbers ==
  ASSUME TypeOK
  PROVE  \A e \in Events :
           changed[e] \in Nat /\ row[e].version \in Nat /\ sync.page[e].version \in Nat
<1>1. NoRow.version \in Nat
  BY DEF NoRow
<1>2. \A rows \in Rows, e \in Events : rows[e].version \in Nat
  BY <1>1, ConstantTypes DEF Rows
<1> QED
  BY <1>2, Numbers DEF TypeOK

LEMMA VersionsInit == Init => Versions
  BY IdleTyped DEF Init, Versions, NoPage, NoRow

LEMMA VersionsNext == TypeOK /\ RowInv /\ Versions /\ [Next]_vars => Versions'
<1> SUFFICES ASSUME TypeOK, RowInv, Versions, [Next]_vars PROVE Versions'
  OBVIOUS
<1>1. ASSUME UNCHANGED <<head, event, changed, times, row>>, sync'.page \in {sync.page, NoPage}
      PROVE  Versions'
  BY <1>1 DEF Versions, NoPage
<1>2. ASSUME NEW n \in Messages \cup {Nobody}, Open(n), UNCHANGED <<google, row>>
      PROVE  Versions'
  BY <1>1, <1>2, OpenTyped DEF google
<1>3. CASE FetchPage
  <2>1. PICK es \in SUBSET Due :
          sync'.page =
            [e \in Events |-> IF e \in es /\ Usable(e) THEN Normalized(e) ELSE NoRow]
    BY <1>3 DEF FetchPage, TypeOK
  <2>2. UNCHANGED <<head, event, changed, times, row>>
    BY <1>3 DEF FetchPage, google
  <2>3. \A e \in Events : sync'.page[e] # NoRow => sync'.page[e].version = changed[e]
    BY <2>1 DEF Normalized
  <2> QED
    BY <2>2, <2>3, VersionNumbers DEF Versions
<1>4. CASE PersistPage
  <2>1. UNCHANGED <<head, event, changed, times>>
        /\ \A e \in Events : row'[e] = IF sync.page[e] # NoRow THEN sync.page[e] ELSE row[e]
    BY <1>4 DEF PersistPage, google
  <2>2. sync'.page = NoPage
    BY <1>4, IdleTyped DEF PersistPage, TypeOK
  <2>3. \A e \in Events : row'[e].version <= changed[e]
    BY <2>1 DEF Versions
  <2> QED
    BY <2>1, <2>2, <2>3 DEF Versions, NoPage
<1>5. CASE FallBack
  BY <1>1, <1>5, FallBackTyped DEF FallBack, google
<1>6. CASE Fail \/ Die
  BY <1>1, <1>6, IdleTyped DEF Fail, Die, google
<1>7. ASSUME NEW n \in Messages, SkipPoke(n)
      PROVE  Versions'
  BY <1>1, <1>7 DEF SkipPoke, google
<1>8. ASSUME NEW e \in Events, NEW status \in Statuses, NEW t \in Times, Change(e, status, t),
             status = "confirmed" => t = "start"
      PROVE  Versions'
  <2>1. UNCHANGED <<row, sync>> /\ head' = head + 1
    BY <1>8 DEF Change
  <2>2. \A o \in Events : /\ changed'[o] = IF o = e THEN head + 1 ELSE changed[o]
                          /\ event'[o] = IF o = e THEN status ELSE event[o]
                          /\ times'[o] = IF o = e THEN t ELSE times[o]
    BY <1>8 DEF Change, TypeOK
  <2>3. \A o \in Events : /\ changed[o] <= changed'[o] /\ changed'[o] \in Nat
                          /\ changed'[o] <= head'
    BY <2>1, <2>2, Numbers DEF Versions
  <2>4. \A o \in Events : /\ row[o].version <= changed'[o]
                          /\ sync.page[o] # NoRow => sync.page[o].version <= changed'[o]
    BY <2>3, VersionNumbers DEF Versions
  <2> QED
    BY <1>8, <2>1, <2>2, <2>3, <2>4 DEF Versions
<1>9. ASSUME NEW e \in Events, Purge(e)
      PROVE  Versions'
  <2>1. UNCHANGED <<head, changed, times, row, sync>>
        /\ \A o \in Events : event'[o] = "confirmed" => event[o] = "confirmed"
    BY <1>9 DEF Purge, TypeOK
  <2> QED
    BY <2>1 DEF Versions
<1>10. CASE UNCHANGED vars
  BY <1>1, <1>10 DEF vars, google
<1> QED
  BY <1>2, <1>3, <1>4, <1>5, <1>6, <1>7, <1>8, <1>9, <1>10
     DEF Next, RunStep, WorkerRun, HandlePoke, Put, Cancel, Statuses, Times

\* What changed up to the token is in its row, in its present version: an event that takes
\* place, and a tombstone that normalize can read.
TokenMeansStored ==
  \A e \in Events :
    /\ event[e] = "confirmed" \/ (event[e] = "cancelled" /\ Usable(e))
    /\ changed[e] <= token
    => row[e] = Normalized(e)

\* For any interleaving of changes, listings and failed runs, tokens given up by Google
\* and pages of any size: the syncToken never passes a change that is not in its row
\* (fetchIncremental, fetchFull and the cursor of persistBatch; ADR 0003).
THEOREM TokenNeverPassesData == Spec => []TokenMeansStored
<1>1. RowInv /\ Versions => TokenMeansStored
  BY DEF RowInv, Versions, BehindToken, StoredUpTo, Presented, Listed, Statuses, Usable,
         TokenMeansStored
<1> QED
  BY <1>1, TypeInit, TypeNext, TokenInit, TokenNext, RowInit, RowNext, VersionsInit,
     VersionsNext, PTL DEF Spec

\* For any interleaving of changes, notifications and failed runs: only the fallback drops
\* the token, no listing moves it back, and no page replaces a row by an older version
\* (unlike HubSpot and Stripe, whose webhooks write beside the runs).
THEOREM NothingGoesBackwards ==
  Spec => [][/\ token' < token => token' = NoToken
             /\ \A e \in Events : row[e].version <= row'[e].version]_vars
<1>1. TypeOK /\ TokenInv /\ Versions /\ [Next]_vars =>
        [/\ token' < token => token' = NoToken
         /\ \A e \in Events : row[e].version <= row'[e].version]_vars
  <2> SUFFICES ASSUME TypeOK, TokenInv, Versions, Next
               PROVE  /\ token' < token => token' = NoToken
                      /\ \A e \in Events : row[e].version <= row'[e].version
    OBVIOUS
  <2>1. ASSUME row' = row, token' \in {token, NoToken}
        PROVE  /\ token' < token => token' = NoToken
               /\ \A e \in Events : row[e].version <= row'[e].version
    BY <2>1, Numbers, VersionNumbers
  <2>2. CASE PersistPage
    <3>1. \A e \in Events : row'[e] = IF sync.page[e] # NoRow THEN sync.page[e] ELSE row[e]
      BY <2>2 DEF PersistPage
    <3>2. \A e \in Events : row[e].version <= row'[e].version
      BY <3>1, VersionNumbers DEF Versions
    <3>3. token <= sync.asOf /\ token' \in {token, sync.asOf}
      BY <2>2 DEF PersistPage, TokenInv
    <3> QED
      BY <3>2, <3>3, Numbers
  <2> QED
    BY <2>1, <2>2
       DEF Next, RunStep, WorkerRun, FetchPage, FallBack, Fail, Die, HandlePoke, SkipPoke, Put,
           Cancel, Change, Purge
<1> QED
  BY <1>1, TypeInit, TypeNext, TokenInit, TokenNext, RowInit, RowNext, VersionsInit,
     VersionsNext, PTL DEF Spec

=============================================================================

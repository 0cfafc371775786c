-------------------------- MODULE CoordinatorProofs --------------------------
(***************************************************************************)
(* Proofs about the coordinator: an answer reaches the operation that sent *)
(* the command, and every session that was entered is accounted for.  An   *)
(* action of Coordinator is a chain of operators over the state reached so *)
(* far; the lemmas follow the chains from their ends.                      *)
(***************************************************************************)
EXTENDS Coordinator, TLAPS
-----------------------------------------------------------------------------
(* What of a state Safe depends on *)

SameLink(s, t) ==
    /\ t.link = s.link /\ t.held = s.held /\ t.started = s.started
    /\ t.selected = s.selected /\ t.ended = s.ended /\ t.stranded = s.stranded
SameWork(s, t) ==
    /\ t.scan = s.scan /\ t.read = s.read /\ t.restore = s.restore
    /\ t.job = s.job /\ t.wait = s.wait
SameTurn(s, t) ==
    /\ t.mode = s.mode /\ t.stage = s.stage /\ t.index = s.index /\ t.aim = s.aim
    /\ t.skipped = s.skipped
SameLedger(s, t) ==
    /\ t.count = s.count /\ t.attempted = s.attempted /\ t.open = s.open
    /\ t.entries = s.entries /\ t.unmarked = s.unmarked

LEMMA FramedIsSafe ==
    ASSUME NEW s, NEW t, Safe(s), t.wire = s.wire,
           SameLink(s, t), SameWork(s, t), SameTurn(s, t), SameLedger(s, t)
    PROVE  Safe(t)
<1>1. LinkInvariant(t)
  BY DEF Safe, Lawful, SameLink, SameWork, SameTurn, SameLedger, LinkInvariant
<1>2. CustodyInvariant(t)
  BY DEF Safe, Lawful, SameLink, SameWork, SameTurn, SameLedger, CustodyInvariant, Alone,
     Working, Handler
<1>3. EntryInvariant(t)
  BY DEF Safe, Lawful, SameLink, SameWork, SameTurn, SameLedger, EntryInvariant
<1>4. ExitInvariant(t)
  BY DEF Safe, Lawful, SameLink, SameWork, SameTurn, SameLedger, ExitInvariant
<1>5. UnderWay(t)
  BY DEF Safe, SameLink, SameTurn, SameLedger, UnderWay
<1> QED
  BY <1>1, <1>2, <1>3, <1>4, <1>5 DEF Safe, Lawful

LEMMA CommandTypes ==
    /\ Quiet \in Commands /\ Quiet.op = "none" /\ Quiet.what = "none"
    /\ NoWait \in Waits
    /\ \A op \in Operations, m \in 0 .. Modules,
          what \in SessionStages \cup {"none", "enter"} :
        /\ Command(op, m, what) \in Commands /\ Command(op, m, what) # Quiet
        /\ Command(op, m, what).op = op /\ Command(op, m, what).module = m
        /\ Command(op, m, what).what = what
<1>1. "none" \notin Operations /\ 0 \in 0 .. Modules /\ 0 \in 0 .. ReadAttempts
  BY CoordinatorAssumption DEF Operations
<1> QED
  BY <1>1 DEF Quiet, Command, Commands, NoWait, Waits

LEMMA StageNames ==
    /\ SessionStages = {"PROTOCOL", "HEADER", "RECEIVE", "CONTROL"}
    /\ DOMAIN NextStage = {"PROTOCOL", "HEADER", "RECEIVE"}
    /\ NextStage["PROTOCOL"] = "HEADER" /\ NextStage["HEADER"] = "RECEIVE"
    /\ NextStage["RECEIVE"] = "CONTROL"
BY DEF SessionStages, NextStage

\* What the operators of the wire and of the lifecycle change.
LEMMA SentIs ==
    ASSUME NEW s \in State, NEW command \in Commands, NEW t, t = Sent(s, command)
    PROVE  /\ t \in State /\ t.wire = command
           /\ t.mode = s.mode /\ t.stage = s.stage /\ t.index = s.index
           /\ t.skipped = s.skipped
           /\ SameLink(s, t) /\ SameWork(s, t) /\ SameLedger(s, t)
           /\ command.op = "session" =>
                t.aim = IF command.what = "HEADER" THEN command.module ELSE s.aim
<1>1. 0 \in 0 .. Modules /\ command.module \in 0 .. Modules
  BY CoordinatorAssumption DEF Commands
<1> DEFINE a == IF command.op # "session" THEN 0
                ELSE IF command.what = "HEADER" THEN command.module ELSE s.aim
           u == [s EXCEPT !.wire = command, !.aim = a]
<1>2. a \in 0 .. Modules
  BY <1>1 DEF State
<1>3. t = u
  BY DEF Sent
<1>4. command.op = "session" =>
        a = IF command.what = "HEADER" THEN command.module ELSE s.aim
  OBVIOUS
<1> HIDE DEF a
<1>5. u \in State /\ u.wire = command /\ u.aim = a
  BY <1>2 DEF State
<1>6. /\ u.mode = s.mode /\ u.stage = s.stage /\ u.index = s.index
      /\ u.skipped = s.skipped
      /\ SameLink(s, u) /\ SameWork(s, u) /\ SameLedger(s, u)
  BY DEF State, SameLink, SameWork, SameLedger
<1> HIDE DEF u
<1> QED
  BY <1>3, <1>4, <1>5, <1>6

LEMMA RequestIs ==
    ASSUME NEW s \in State, NEW r \in BOOLEAN, NEW t, t = [s EXCEPT !.requested = r]
    PROVE  /\ t \in State /\ t.requested = r /\ t.wire = s.wire
           /\ SameLink(s, t) /\ SameWork(s, t) /\ SameTurn(s, t) /\ SameLedger(s, t)
BY DEF State, SameLink, SameWork, SameTurn, SameLedger

LEMMA WithdrawnIs ==
    ASSUME NEW s \in State, NEW t, t = [s EXCEPT !.requested = FALSE]
    PROVE  /\ t \in State /\ t.requested = FALSE /\ t.wire = s.wire
           /\ SameLink(s, t) /\ SameWork(s, t) /\ SameTurn(s, t) /\ SameLedger(s, t)
BY DEF State, SameLink, SameWork, SameTurn, SameLedger

LEMMA EndedIs ==
    ASSUME NEW s \in State, NEW how \in {"teardown", "otherwise"}, NEW t, t = Ended(s, how)
    PROVE  /\ t \in State /\ t.link = "down" /\ t.held = FALSE /\ t.wire = Quiet
           /\ t.ended = how /\ t.started = s.started /\ t.selected = s.selected
           /\ t.stranded = s.stranded
           /\ SameWork(s, t) /\ SameTurn(s, t) /\ SameLedger(s, t)
<1> DEFINE u == [s EXCEPT !.link = "down", !.held = FALSE]
           v == [u EXCEPT !.wire = Quiet]
           w == [v EXCEPT !.ended = how]
<1>1. /\ u \in State /\ u.link = "down" /\ u.held = FALSE
      /\ u.started = s.started /\ u.selected = s.selected /\ u.stranded = s.stranded
      /\ SameWork(s, u) /\ SameTurn(s, u) /\ SameLedger(s, u)
  BY DEF State, SameWork, SameTurn, SameLedger
<1>2. w = t
  BY DEF Ended, State
<1> HIDE DEF u
<1>3. Quiet \in Commands
  BY CommandTypes
<1>4. /\ v \in State /\ v.wire = Quiet /\ v.link = u.link /\ v.held = u.held
      /\ v.started = u.started /\ v.selected = u.selected /\ v.stranded = u.stranded
      /\ SameWork(u, v) /\ SameTurn(u, v) /\ SameLedger(u, v)
  BY <1>1, <1>3 DEF State, SameWork, SameTurn, SameLedger
<1> HIDE DEF v
<1>5. /\ w \in State /\ w.ended = how
      /\ w.wire = v.wire /\ w.link = v.link /\ w.held = v.held
      /\ w.started = v.started /\ w.selected = v.selected /\ w.stranded = v.stranded
      /\ SameWork(v, w) /\ SameTurn(v, w) /\ SameLedger(v, w)
  BY <1>4 DEF State, SameWork, SameTurn, SameLedger
<1> HIDE DEF w
<1> QED
  BY <1>1, <1>2, <1>4, <1>5 DEF SameWork, SameTurn, SameLedger

LEMMA TornDownIs ==
    ASSUME NEW s \in State, NEW t, t = Ended(s, "teardown")
    PROVE  /\ t \in State /\ t.link = "down" /\ t.held = FALSE /\ t.wire = Quiet
           /\ t.ended = "teardown" /\ t.started = s.started /\ t.selected = s.selected
           /\ t.stranded = s.stranded
           /\ SameWork(s, t) /\ SameTurn(s, t) /\ SameLedger(s, t)
BY EndedIs

LEMMA FinishedIs ==
    ASSUME NEW s \in State, NEW t, t = Finished(s)
    PROVE  /\ t \in State /\ t.mode = "NONE" /\ t.wire = s.wire /\ t.skipped = s.skipped
           /\ t.requested = s.requested
           /\ SameLink(s, t) /\ SameWork(s, t) /\ SameLedger(s, t)
<1>1. 0 \in 0 .. Modules + 1
  BY CoordinatorAssumption
<1> QED
  BY <1>1 DEF Finished, State, SameLink, SameWork, SameLedger

LEMMA BegunIs ==
    ASSUME NEW s \in State, NEW mode \in {"ESTABLISH", "TEARDOWN"}, NEW t,
           t = Begun(s, mode)
    PROVE  /\ t \in State /\ t.mode = mode /\ t.stage = "NONE" /\ t.index = 1
           /\ t.wire = s.wire /\ t.skipped = s.skipped
           /\ SameLink(s, t) /\ SameWork(s, t) /\ SameLedger(s, t)
<1>1. 1 \in 0 .. Modules + 1
  BY CoordinatorAssumption
<1> QED
  BY <1>1 DEF Begun, State, SameLink, SameWork, SameLedger

\* The connection ends otherwise than by the teardown.
LEMMA EndedIsSafe ==
    ASSUME NEW s \in State, Safe(s)
    PROVE  Ended(s, "otherwise") \in State /\ Safe(Ended(s, "otherwise"))
<1> DEFINE t == Ended(s, "otherwise")
<1>1. /\ t \in State /\ t.link = "down" /\ t.held = FALSE /\ t.wire = Quiet
      /\ t.ended = "otherwise" /\ t.started = s.started /\ t.selected = s.selected
      /\ t.stranded = s.stranded
      /\ SameWork(s, t) /\ SameTurn(s, t) /\ SameLedger(s, t)
  BY EndedIs
<1> HIDE DEF t
<1>2. LinkInvariant(t)
  BY <1>1 DEF Safe, Lawful, SameWork, SameTurn, SameLedger, LinkInvariant
<1>3. CustodyInvariant(t)
  BY <1>1 DEF CustodyInvariant
<1>4. EntryInvariant(t)
  BY <1>1 DEF Safe, Lawful, SameWork, SameTurn, SameLedger, EntryInvariant
<1>5. ExitInvariant(t)
  BY <1>1 DEF Safe, Lawful, SameWork, SameTurn, SameLedger, ExitInvariant
<1>6. UnderWay(t)
  BY <1>1 DEF Safe, SameTurn, UnderWay
<1> QED
  BY <1>1, <1>2, <1>3, <1>4, <1>5, <1>6 DEF t, Safe, Lawful

\* The retries and the request of a disconnect are no part of it.
LEMMA RequestIsSafe ==
    ASSUME NEW s \in State, Safe(s), NEW r \in BOOLEAN
    PROVE  [s EXCEPT !.requested = r] \in State /\ Safe([s EXCEPT !.requested = r])
<1> DEFINE t == [s EXCEPT !.requested = r]
<1>1. /\ t \in State /\ t.wire = s.wire /\ SameLink(s, t) /\ SameWork(s, t)
      /\ SameTurn(s, t) /\ SameLedger(s, t)
  BY RequestIs
<1> HIDE DEF t
<1>2. Safe(t)
  BY <1>1, FramedIsSafe
<1> QED
  BY <1>1, <1>2 DEF t

LEMMA RetryIsSafe ==
    ASSUME NEW s \in State, Safe(s), NEW attempt \in 0 .. Attempts, attempt < Attempts
    PROVE  RetryAfter(s, attempt) \in State /\ Safe(RetryAfter(s, attempt))
<1> DEFINE t == RetryAfter(s, attempt)
<1>0. attempt + 1 \in 1 .. Attempts
  BY CoordinatorAssumption
<1>1. /\ t \in State /\ t.wire = s.wire /\ SameLink(s, t) /\ SameWork(s, t)
      /\ SameTurn(s, t) /\ SameLedger(s, t)
  BY <1>0 DEF RetryAfter, State, SameLink, SameWork, SameTurn, SameLedger
<1> HIDE DEF t
<1>2. Safe(t)
  BY <1>1, FramedIsSafe
<1> QED
  BY <1>1, <1>2 DEF t

-----------------------------------------------------------------------------
(* The next session, and the end of a teardown *)

LEMMA PassedOverIsSafe ==
    ASSUME NEW s \in State, Lawful(s), NEW ms \in SUBSET All, NEW t, t = PassedOver(s, ms)
    PROVE  /\ t \in State /\ Lawful(t)
           /\ t.mode = s.mode /\ t.stage = s.stage /\ t.index = s.index /\ t.aim = s.aim
           /\ t.wire = s.wire /\ SameLink(s, t) /\ SameWork(s, t) /\ SameLedger(s, t)
           /\ s.skipped \subseteq t.skipped
           /\ s.mode = "TEARDOWN" => t.skipped = s.skipped \cup ms
<1>1. CASE s.mode = "TEARDOWN"
  <2> DEFINE u == [s EXCEPT !.skipped = @ \cup ms]
  <2>1. /\ u \in State
        /\ u.mode = s.mode /\ u.stage = s.stage /\ u.index = s.index /\ u.aim = s.aim
        /\ u.wire = s.wire /\ SameLink(s, u) /\ SameWork(s, u) /\ SameLedger(s, u)
        /\ u.skipped = s.skipped \cup ms
    BY DEF State, SameLink, SameWork, SameLedger
  <2>2. t = u
    BY <1>1 DEF PassedOver
  <2> HIDE DEF u
  <2>3. LinkInvariant(t)
    BY <2>1, <2>2 DEF Lawful, SameLink, SameWork, SameLedger, LinkInvariant
  <2>4. CustodyInvariant(t)
    BY <2>1, <2>2 DEF Lawful, SameLink, SameWork, SameLedger, CustodyInvariant, Alone,
       Working, Handler
  <2>5. EntryInvariant(t)
    BY <2>1, <2>2 DEF Lawful, SameLink, SameWork, SameLedger, EntryInvariant
  <2>6. ExitInvariant(t)
    BY <2>1, <2>2 DEF Lawful, SameLink, SameWork, SameLedger, ExitInvariant
  <2> QED
    BY <2>1, <2>2, <2>3, <2>4, <2>5, <2>6 DEF Lawful
<1>2. CASE s.mode # "TEARDOWN"
  <2>1. t = s
    BY <1>2 DEF PassedOver
  <2> QED
    BY <1>2, <2>1 DEF SameLink, SameWork, SameLedger
<1> QED
  BY <1>1, <1>2

\* A session that is open is one the teardown still has before it.
LEMMA OpenIsEligible ==
    ASSUME NEW s \in State, Lawful(s), s.mode = "TEARDOWN", s.link # "down", ~s.stranded,
           NEW m \in s.open \cap Sessioned, m \notin s.skipped \cup s.unmarked
    PROVE  m \in Eligible(s) /\ s.index <= m /\ m \in All /\ m <= Modules
<1>1. m \in All /\ s.count \in 0 .. Modules
  BY DEF State
<1>2. m \in s.attempted /\ s.attempted \subseteq 1 .. s.count
  BY DEF Lawful, ExitInvariant, EntryInvariant
<1>3. m <= s.count
  BY <1>1, <1>2 DEF All
<1>4. s.index <= m
  BY <1>1 DEF Lawful, ExitInvariant
<1> QED
  BY <1>1, <1>2, <1>3, <1>4, CoordinatorAssumption DEF Eligible, All

LEMMA NoneLeftIsSafe ==
    ASSUME NEW s \in State, Lawful(s), NEW t, t = NoneLeft(s)
    PROVE  /\ t \in State /\ Lawful(t)
           /\ t.mode = s.mode /\ t.stage = s.stage /\ t.index = s.index /\ t.aim = s.aim
           /\ t.wire = s.wire /\ SameLink(s, t) /\ SameWork(s, t) /\ SameLedger(s, t)
           /\ s.mode = "TEARDOWN" /\ s.link # "down" /\ ~s.stranded =>
                t.open \subseteq t.skipped \cup t.unmarked \cup (All \ Sessioned)
<1> DEFINE ms == Upto(s, Modules + 1)
<1>1. ms \in SUBSET All
  BY CoordinatorAssumption DEF Upto, Eligible
<1>2. t = PassedOver(s, ms)
  BY DEF NoneLeft
<1>3. \A m \in Eligible(s) : s.index <= m /\ m <= Modules => m \in ms
  BY CoordinatorAssumption DEF Upto, Eligible, All
<1> HIDE DEF ms
<1>4. /\ t \in State /\ Lawful(t)
      /\ t.mode = s.mode /\ t.stage = s.stage /\ t.index = s.index /\ t.aim = s.aim
      /\ t.wire = s.wire /\ SameLink(s, t) /\ SameWork(s, t) /\ SameLedger(s, t)
      /\ s.mode = "TEARDOWN" => t.skipped = s.skipped \cup ms
  BY <1>1, <1>2, PassedOverIsSafe
<1>5. ASSUME s.mode = "TEARDOWN", s.link # "down", ~s.stranded, NEW m \in t.open
      PROVE  m \in t.skipped \cup t.unmarked \cup (All \ Sessioned)
  <2>1. m \in s.open /\ s.open \subseteq All /\ t.unmarked = s.unmarked
    BY <1>4, <1>5 DEF SameLedger, State
  <2>2. m \in Sessioned \ (s.skipped \cup s.unmarked) => m \in ms
    BY <1>3, <1>5, <2>1, OpenIsEligible
  <2> QED
    BY <1>4, <1>5, <2>1, <2>2
<1> QED
  BY <1>4, <1>5

LEMMA ClosedIsSafe ==
    ASSUME NEW s \in State, Lawful(s), Closed(s),
           ~s.stranded => s.open \subseteq s.skipped \cup s.unmarked \cup (All \ Sessioned)
    PROVE  c' \in State /\ Safe(c')
<1>1. /\ c' \in State /\ c'.link = "down" /\ c'.held = FALSE /\ c'.wire = Quiet
      /\ c'.mode = "NONE" /\ c'.skipped = s.skipped
      /\ c'.ended = "teardown" /\ c'.started = s.started /\ c'.selected = s.selected
      /\ c'.stranded = s.stranded
      /\ SameWork(s, c') /\ SameLedger(s, c')
  <2> DEFINE f == Finished(s)
             g == [f EXCEPT !.requested = FALSE]
  <2>1. /\ f \in State /\ f.mode = "NONE" /\ f.wire = s.wire /\ f.skipped = s.skipped
        /\ SameLink(s, f) /\ SameWork(s, f) /\ SameLedger(s, f)
    BY FinishedIs
  <2>0. g = [f EXCEPT !.requested = FALSE]
    OBVIOUS
  <2>3. c' = Ended(g, "teardown")
    BY DEF Closed, f
  <2> HIDE DEF f, g
  <2>2. /\ g \in State /\ g.mode = "NONE" /\ g.skipped = f.skipped
        /\ SameLink(f, g) /\ SameWork(f, g) /\ SameLedger(f, g)
    BY <2>0, <2>1, WithdrawnIs DEF SameTurn
  <2>4. /\ c' \in State /\ c'.link = "down" /\ c'.held = FALSE /\ c'.wire = Quiet
        /\ c'.ended = "teardown" /\ c'.started = g.started /\ c'.selected = g.selected
        /\ c'.stranded = g.stranded
        /\ SameWork(g, c') /\ SameTurn(g, c') /\ SameLedger(g, c')
    BY <2>2, <2>3, TornDownIs
  <2> QED
    BY <2>1, <2>2, <2>4 DEF SameLink, SameWork, SameTurn, SameLedger
<1>2. LinkInvariant(c')
  BY <1>1 DEF Lawful, SameWork, SameLedger, LinkInvariant
<1>3. CustodyInvariant(c')
  BY <1>1 DEF CustodyInvariant
<1>4. EntryInvariant(c')
  BY <1>1 DEF Lawful, SameWork, SameLedger, EntryInvariant
<1>5. ExitInvariant(c')
  BY <1>1 DEF Lawful, SameWork, SameLedger, ExitInvariant
<1> QED
  BY <1>1, <1>2, <1>3, <1>4, <1>5 DEF Safe, Lawful, UnderWay

\* The first command of the next session.
LEMMA BeginSessionIsSafe ==
    ASSUME NEW s \in State, Lawful(s), s.mode # "NONE", BeginSession(s)
    PROVE  c' \in State /\ Safe(c')
<1>1. PICK m \in Eligible(s) :
        /\ s.index <= m /\ CanWrite(s)
        /\ c' = Sent([PassedOver(s, Upto(s, m)) EXCEPT !.index = m, !.stage = "PROTOCOL"],
                     Command("session", m, "PROTOCOL"))
  BY DEF BeginSession
<1> DEFINE p == PassedOver(s, Upto(s, m))
           command == Command("session", m, "PROTOCOL")
<1>2. /\ m \in All /\ m \in 0 .. Modules /\ m \in 0 .. Modules + 1 /\ m <= s.count
      /\ m \in s.attempted <=> s.mode = "TEARDOWN"
  BY CoordinatorAssumption DEF Eligible, All
<1>3. Upto(s, m) \in SUBSET All
  BY CoordinatorAssumption DEF Upto, Eligible
<1>4. /\ p \in State /\ Lawful(p)
      /\ p.mode = s.mode /\ p.aim = s.aim
      /\ p.wire = s.wire /\ SameLink(s, p) /\ SameWork(s, p) /\ SameLedger(s, p)
      /\ s.skipped \subseteq p.skipped
      /\ s.mode = "TEARDOWN" => p.skipped = s.skipped \cup Upto(s, m)
  BY <1>3, PassedOverIsSafe
<1>5. command \in Commands /\ command # Quiet
      /\ command.op = "session" /\ command.module = m /\ command.what = "PROTOCOL"
  <2>1. "PROTOCOL" \in SessionStages /\ "session" \in Operations
    BY StageNames DEF Operations
  <2> QED
    BY <1>2, <2>1, CommandTypes
<1>6. s.held /\ s.wire = Quiet /\ s.link # "down" /\ s.started
  <2>1. s.held /\ s.wire = Quiet
    BY <1>1 DEF CanWrite
  <2>2. s.count # 0
    BY <1>2 DEF All
  <2> QED
    BY <2>1, <2>2 DEF Lawful, LinkInvariant
<1> HIDE DEF p, command
<1>7. /\ c' \in State /\ c'.wire = command /\ c'.mode = s.mode /\ c'.stage = "PROTOCOL"
      /\ c'.index = m /\ c'.skipped = p.skipped
      /\ SameLink(s, c') /\ SameWork(s, c') /\ SameLedger(s, c')
  <2> DEFINE q == [p EXCEPT !.index = m, !.stage = "PROTOCOL"]
  <2>1. "PROTOCOL" \in SessionStages
    BY StageNames
  <2>2. /\ q \in State /\ q.stage = "PROTOCOL" /\ q.index = m /\ q.mode = p.mode
        /\ q.skipped = p.skipped /\ SameLink(p, q) /\ SameWork(p, q) /\ SameLedger(p, q)
    BY <1>2, <1>4, <2>1 DEF State, SameLink, SameWork, SameLedger
  <2>3. c' = Sent(q, command)
    BY <1>1 DEF p, command
  <2> HIDE DEF q
  <2>4. /\ c' \in State /\ c'.wire = command
        /\ c'.mode = q.mode /\ c'.stage = q.stage /\ c'.index = q.index
        /\ c'.skipped = q.skipped
        /\ SameLink(q, c') /\ SameWork(q, c') /\ SameLedger(q, c')
    BY <1>5, <2>2, <2>3, SentIs
  <2> QED
    BY <1>4, <2>2, <2>4 DEF SameLink, SameWork, SameLedger
<1>8. LinkInvariant(c')
  BY <1>6, <1>7 DEF Lawful, SameLink, SameWork, SameLedger, LinkInvariant
<1>9. CustodyInvariant(c')
  BY <1>5, <1>6, <1>7 DEF Lawful, SameLink, SameWork, SameLedger, CustodyInvariant, Alone,
     Working, Handler
<1>10. EntryInvariant(c')
  <2>1. m # 0
    BY <1>2 DEF All
  <2> QED
    BY <1>2, <1>6, <1>7, <2>1 DEF Lawful, SameLink, SameWork, SameLedger, EntryInvariant
<1>11. ExitInvariant(c')
  <2>1. ASSUME s.mode = "TEARDOWN", ~s.stranded, NEW j \in s.open \cap Sessioned,
               j \notin p.skipped \cup s.unmarked
        PROVE  m <= j
    <3>1. j \in Eligible(s) /\ s.index <= j /\ j \in All
      BY <1>4, <1>6, <2>1, OpenIsEligible
    <3>2. j \notin Upto(s, m)
      BY <1>4, <2>1
    <3> QED
      BY <1>2, <3>1, <3>2 DEF Upto, All
  <2>2. s.open \subseteq All /\ c'.index = m
    BY <1>7 DEF State
  <2>3. ASSUME s.mode = "TEARDOWN", ~s.stranded
        PROVE  s.open \cap Sessioned \subseteq
                 p.skipped \cup s.unmarked \cup {j \in All : m <= j}
    BY <2>1, <2>2, <2>3
  <2>4. ~s.stranded => s.open \subseteq s.attempted \cup s.unmarked
    BY DEF Lawful, ExitInvariant
  <2>5. ~(c'.ended = "teardown")
    BY <1>6, <1>7 DEF Lawful, LinkInvariant, SameLink
  <2> QED
    BY <1>7, <2>2, <2>3, <2>4, <2>5 DEF SameLink, SameLedger, ExitInvariant
<1>12. UnderWay(c')
  BY <1>2, <1>7 DEF SameLedger, UnderWay
<1> QED
  BY <1>7, <1>8, <1>9, <1>10, <1>11, <1>12 DEF Safe, Lawful

-----------------------------------------------------------------------------
(* Giving the wire back, and the disconnect *)

\* Work that is dropped between two commands, with or without the wire.
Dropped(s, t) ==
    /\ t \in State /\ t.wire = s.wire /\ SameLedger(s, t)
    /\ t.link = s.link /\ t.started = s.started /\ t.selected = s.selected
    /\ t.ended = s.ended /\ t.stranded = s.stranded
    /\ t.mode = s.mode /\ t.stage = s.stage /\ t.index = s.index
    /\ t.skipped = s.skipped
    /\ t.scan => s.scan
    /\ t.read => s.read
    /\ t.restore \in {s.restore, "none"}
    /\ t.job => s.job
    /\ t.wait \in {s.wait, NoWait}
    /\ \/ t.held = s.held
       \/ ~t.held /\ (~s.stranded /\ s.link # "down" => ~Working(t))

LEMMA DroppedIsSafe ==
    ASSUME NEW s \in State, Safe(s), s.wire = Quiet \/ s.stranded, NEW t, Dropped(s, t)
    PROVE  Safe(t)
<1>1. LinkInvariant(t)
  BY DEF Dropped, Safe, Lawful, SameLedger, LinkInvariant
<1>2. CustodyInvariant(t)
  <2>1. ASSUME t.link # "down", ~t.stranded
        PROVE  Alone(t) /\ (Working(t) => t.held) /\ (t.wait # NoWait => ~t.job)
    BY <2>1 DEF Dropped, Safe, Lawful, CustodyInvariant, Alone, Working
  <2> QED
    BY <2>1 DEF Dropped, CustodyInvariant
<1>3. EntryInvariant(t)
  BY DEF Dropped, Safe, Lawful, SameLedger, EntryInvariant
<1>4. ExitInvariant(t)
  BY DEF Dropped, Safe, Lawful, SameLedger, ExitInvariant
<1>5. UnderWay(t)
  BY DEF Dropped, Safe, SameLedger, UnderWay
<1> QED
  BY <1>1, <1>2, <1>3, <1>4, <1>5 DEF Safe, Lawful

LEMMA TeardownIsSafe ==
    ASSUME NEW s \in State, Lawful(s), s.link # "down", ~s.scan,
           \/ s.stranded
           \/ s.wire = Quiet /\ s.held /\ ~s.read /\ s.restore = "none",
           Teardown(s)
    PROVE  c' \in State /\ Safe(c')
<1> DEFINE t == Begun(s, "TEARDOWN")
<1>1. /\ t \in State /\ t.mode = "TEARDOWN" /\ t.stage = "NONE" /\ t.index = 1
      /\ t.wire = s.wire /\ t.skipped = s.skipped
      /\ SameLink(s, t) /\ SameWork(s, t) /\ SameLedger(s, t)
  BY BegunIs
<1>2. BeginSession(t) \/ Closed(NoneLeft(t))
  BY DEF Teardown
<1> HIDE DEF t
<1>3. Lawful(t)
  <2>1. LinkInvariant(t)
    BY <1>1 DEF Lawful, SameLink, SameWork, SameLedger, LinkInvariant
  <2>2. CustodyInvariant(t)
    BY <1>1 DEF SameLink, SameWork, CustodyInvariant, Alone, Working, Lawful
  <2>3. EntryInvariant(t)
    BY <1>1 DEF Lawful, SameLink, SameWork, SameLedger, EntryInvariant
  <2>4. ExitInvariant(t)
    <3>1. \A m \in All : 1 <= m
      BY DEF All
    <3>2. s.open \subseteq All
      BY DEF State
    <3> QED
      BY <1>1, <3>1, <3>2 DEF Lawful, SameLink, SameLedger, ExitInvariant, LinkInvariant
  <2> QED
    BY <2>1, <2>2, <2>3, <2>4 DEF Lawful
<1>4. CASE BeginSession(t)
  BY <1>1, <1>3, <1>4, BeginSessionIsSafe
<1>5. CASE Closed(NoneLeft(t))
  <2> DEFINE u == NoneLeft(t)
  <2>1. /\ u \in State /\ Lawful(u) /\ u.stranded = s.stranded
        /\ ~s.stranded => u.open \subseteq u.skipped \cup u.unmarked \cup (All \ Sessioned)
    BY <1>1, <1>3, NoneLeftIsSafe DEF SameLink
  <2>2. Closed(u)
    BY <1>5
  <2> HIDE DEF u
  <2> QED
    BY <2>1, <2>2, ClosedIsSafe
<1> QED
  BY <1>2, <1>4, <1>5

LEMMA LentIsSafe ==
    ASSUME NEW s \in State, Safe(s), CanLend(s), NEW t, t = [s EXCEPT !.held = TRUE]
    PROVE  /\ t \in State /\ Safe(t) /\ t.held /\ t.link = "live" /\ t.wire = Quiet
           /\ t.scan = s.scan /\ t.stranded = s.stranded /\ t.requested = s.requested
           /\ t.started = s.started /\ t.wait = s.wait /\ t.count = s.count
           /\ ~t.stranded => ~Working(t)
<1>1. s.link = "live" /\ ~s.held /\ s.wire = Quiet
  BY DEF CanLend
<1>2. ~s.stranded => ~Working(s)
  BY <1>1 DEF Safe, Lawful, CustodyInvariant
<1>3. /\ t \in State /\ t.held /\ t.wire = Quiet /\ t.requested = s.requested
      /\ t.link = s.link /\ t.started = s.started /\ t.selected = s.selected
      /\ t.ended = s.ended /\ t.stranded = s.stranded
      /\ SameWork(s, t) /\ SameTurn(s, t) /\ SameLedger(s, t)
  BY <1>1 DEF State, SameWork, SameTurn, SameLedger
<1>4. ~t.stranded => ~Working(t)
  BY <1>2, <1>3 DEF SameWork, SameTurn, Working
<1>5. LinkInvariant(t)
  BY <1>1, <1>3 DEF Safe, Lawful, SameWork, SameTurn, SameLedger, LinkInvariant
<1>6. CustodyInvariant(t)
  BY <1>1, <1>3, <1>4
  DEF Safe, Lawful, SameWork, SameTurn, CustodyInvariant, Alone, Working
<1>7. EntryInvariant(t)
  BY <1>1, <1>3 DEF Safe, Lawful, SameWork, SameTurn, SameLedger, EntryInvariant
<1>8. ExitInvariant(t)
  BY <1>1, <1>3 DEF Safe, Lawful, SameWork, SameTurn, SameLedger, ExitInvariant
<1>9. UnderWay(t)
  BY <1>3 DEF Safe, SameTurn, SameLedger, UnderWay
<1> QED
  BY <1>1, <1>3, <1>4, <1>5, <1>6, <1>7, <1>8, <1>9
  DEF Safe, Lawful, SameWork, SameLedger

LEMMA TryTeardownIsSafe ==
    ASSUME NEW s \in State, Safe(s), NEW attempt \in 0 .. Attempts, TryTeardown(s, attempt)
    PROVE  c' \in State /\ Safe(c')
<1>1. CASE c' = s
  BY <1>1
<1>2. CASE c' = [s EXCEPT !.requested = FALSE]
  <2>1. /\ c' \in State /\ c'.wire = s.wire
        /\ SameLink(s, c') /\ SameWork(s, c') /\ SameTurn(s, c') /\ SameLedger(s, c')
    BY <1>2, WithdrawnIs
  <2> QED
    BY <2>1, FramedIsSafe
<1>3. CASE attempt < Attempts /\ c' = RetryAfter(s, attempt)
  BY <1>3, RetryIsSafe
<1>4. CASE s.mode # "TEARDOWN" /\ ~Busy(s) /\ CanLend(s) /\ Teardown([s EXCEPT !.held = TRUE])
  <2> DEFINE t == [s EXCEPT !.held = TRUE]
  <2>1. /\ t \in State /\ Safe(t) /\ t.held /\ t.link = "live" /\ t.wire = Quiet
        /\ t.scan = s.scan
        /\ ~t.stranded => ~Working(t)
    BY <1>4, LentIsSafe
  <2>2. Teardown(t) /\ ~s.scan
    BY <1>4 DEF Busy
  <2> HIDE DEF t
  <2> QED
    BY <2>1, <2>2, TeardownIsSafe DEF Working, Safe
<1>5. CASE c' = Ended(s, "otherwise")
  BY <1>5, EndedIsSafe
<1> QED
  BY <1>1, <1>2, <1>3, <1>4, <1>5 DEF TryTeardown

\* No operation needs the wire any more.
Resting(s) == ~s.stranded /\ s.link # "down" => ~Working(s)
Silent(s) == s.wire = Quiet \/ s.stranded

LEMMA RestoredIsSafe ==
    ASSUME NEW s \in State, Safe(s), Silent(s), Resting(s), NEW t, t = Restored(s)
    PROVE  t \in State /\ Safe(t)
<1>1. 0 \in 0 .. Modules
  BY CoordinatorAssumption
<1>2. /\ t \in State /\ t.wire = s.wire /\ SameLedger(s, t) /\ SameWork(s, t)
      /\ t.link = s.link /\ t.started = s.started /\ t.selected = s.selected
      /\ t.ended = s.ended /\ t.stranded = s.stranded
      /\ t.mode = s.mode /\ t.stage = s.stage /\ t.index = s.index
      /\ t.skipped = s.skipped /\ t.held = FALSE
  BY <1>1 DEF Restored, State, SameLedger, SameWork
<1>3. Dropped(s, t)
  BY <1>2 DEF Dropped, SameWork, Resting, Working
<1> QED
  BY <1>2, <1>3, DroppedIsSafe DEF Silent

LEMMA RestoredOrFailedIsSafe ==
    ASSUME NEW s \in State, Safe(s), Silent(s), Resting(s), NEW t, t = RestoredOrFailed(s)
    PROVE  t \in State /\ Safe(t)
BY RestoredIsSafe, EndedIsSafe DEF RestoredOrFailed

LEMMA UpdateJobIsSafe ==
    ASSUME NEW s \in State, Safe(s), NEW t, t = UpdateJob(s)
    PROVE  t \in State /\ Safe(t)
<1>1. CASE t = s
  BY <1>1
<1>2. CASE t = [s EXCEPT !.polling = "on"]
  <2>1. /\ t \in State /\ t.wire = s.wire
        /\ SameLink(s, t) /\ SameWork(s, t) /\ SameTurn(s, t) /\ SameLedger(s, t)
    BY <1>2 DEF State, SameLink, SameWork, SameTurn, SameLedger
  <2> QED
    BY <2>1, FramedIsSafe
<1>3. CASE t = [s EXCEPT !.polling = "off"]
  <2>1. /\ t \in State /\ t.wire = s.wire
        /\ SameLink(s, t) /\ SameWork(s, t) /\ SameTurn(s, t) /\ SameLedger(s, t)
    BY <1>3 DEF State, SameLink, SameWork, SameTurn, SameLedger
  <2> QED
    BY <2>1, FramedIsSafe
<1> QED
  BY <1>1, <1>2, <1>3 DEF UpdateJob

LEMMA ReleasedIsSafe ==
    ASSUME NEW s \in State, Safe(s), Silent(s), Resting(s), NEW t, t = Released(s)
    PROVE  t \in State /\ Safe(t)
<1> DEFINE h == s.held /\ s.wire # Quiet
<1>1. h \in BOOLEAN /\ (h = s.held \/ ~h) /\ t = [s EXCEPT !.held = h]
  BY DEF Released, State
<1> HIDE DEF h
<1>2. /\ t \in State /\ t.wire = s.wire /\ SameLedger(s, t) /\ SameWork(s, t)
      /\ t.link = s.link /\ t.started = s.started /\ t.selected = s.selected
      /\ t.ended = s.ended /\ t.stranded = s.stranded
      /\ t.mode = s.mode /\ t.stage = s.stage /\ t.index = s.index
      /\ t.skipped = s.skipped /\ t.held = h
  BY <1>1 DEF State, SameLedger, SameWork
<1>3. Dropped(s, t)
  BY <1>1, <1>2 DEF Dropped, SameWork, Resting, Working
<1> QED
  BY <1>2, <1>3, DroppedIsSafe DEF Silent

\* Everything that was going on is over.
LEMMA WorkOverIs ==
    ASSUME NEW s \in State, NEW t, t = WorkOver(s)
    PROVE  /\ t \in State /\ t.wire = s.wire
           /\ SameLink(s, t) /\ SameTurn(s, t) /\ SameLedger(s, t)
           /\ t.scan = FALSE /\ t.read = FALSE
<1> DEFINE u == WorkOver(s)
<1>1. 0 \in 0 .. Modules
  BY CoordinatorAssumption
<1>2. u \in State
  BY <1>1 DEF State, WorkOver
<1>3. SameLink(s, u) /\ SameTurn(s, u) /\ SameLedger(s, u)
  BY DEF State, WorkOver, SameLink, SameTurn, SameLedger
<1>4. u.wire = s.wire /\ u.scan = FALSE /\ u.read = FALSE
  BY DEF State, WorkOver
<1> QED
  BY <1>2, <1>3, <1>4

LEMMA PassOverIs ==
    ASSUME NEW s \in State, NEW t, t = PassOver(s)
    PROVE  /\ t \in State /\ t.wire = s.wire
           /\ SameLink(s, t) /\ SameTurn(s, t) /\ SameLedger(s, t)
           /\ t.scan = s.scan /\ t.read = s.read
           /\ t.job = FALSE /\ t.restore = "none" /\ t.wait = NoWait
<1> DEFINE u == PassOver(s)
<1>1. 1 \in 1 .. Modules + 1 /\ NoWait \in Waits
  BY CoordinatorAssumption, CommandTypes
<1>2. u \in State
  BY <1>1 DEF State, PassOver
<1>3. SameLink(s, u) /\ SameTurn(s, u) /\ SameLedger(s, u)
  BY DEF State, PassOver, SameLink, SameTurn, SameLedger
<1>4. /\ u.wire = s.wire /\ u.scan = s.scan /\ u.read = s.read
      /\ u.job = FALSE /\ u.restore = "none" /\ u.wait = NoWait
  BY DEF State, PassOver
<1> QED
  BY <1>2, <1>3, <1>4

LEMMA FinishCurrentWorkIsSafe ==
    ASSUME NEW s \in State, Safe(s), Silent(s), s.mode = "NONE" \/ s.stranded,
           FinishCurrentWork(s)
    PROVE  c' \in State /\ Safe(c')
<1> DEFINE h == s.held /\ s.wire # Quiet
           r == Released(s)
           u == WorkOver(r)
           t == PassOver(u)
<1>1. h \in BOOLEAN /\ (h = s.held \/ ~h) /\ r = [s EXCEPT !.held = h]
  BY DEF State, Released
<1> HIDE DEF h, r
<1>2. /\ r \in State /\ r.wire = s.wire /\ SameLedger(s, r)
      /\ r.link = s.link /\ r.started = s.started /\ r.selected = s.selected
      /\ r.ended = s.ended /\ r.stranded = s.stranded
      /\ r.mode = s.mode /\ r.stage = s.stage /\ r.index = s.index
      /\ r.skipped = s.skipped /\ r.held = h
  BY <1>1 DEF State, SameLedger
<1>3. 0 \in 0 .. Attempts
  BY CoordinatorAssumption
<1>4. TryTeardown(t, 0)
  BY DEF FinishCurrentWork, r
<1>5. /\ t \in State /\ t.wire = r.wire /\ t.held = r.held
      /\ SameLink(r, t) /\ SameTurn(r, t) /\ SameLedger(r, t)
      /\ t.scan = FALSE /\ t.read = FALSE /\ t.job = FALSE /\ t.restore = "none"
      /\ t.wait = NoWait
  <2>1. /\ u \in State /\ u.wire = r.wire
        /\ SameLink(r, u) /\ SameTurn(r, u) /\ SameLedger(r, u)
        /\ u.scan = FALSE /\ u.read = FALSE
    BY <1>2, WorkOverIs
  <2> HIDE DEF u
  <2>2. /\ t \in State /\ t.wire = u.wire
        /\ SameLink(u, t) /\ SameTurn(u, t) /\ SameLedger(u, t)
        /\ t.scan = u.scan /\ t.read = u.read
        /\ t.job = FALSE /\ t.restore = "none" /\ t.wait = NoWait
    BY <2>1, PassOverIs
  <2> HIDE DEF t
  <2> QED
    BY <2>1, <2>2 DEF SameLink, SameTurn, SameLedger
<1> HIDE DEF t
<1>6. Dropped(s, t)
  BY <1>1, <1>2, <1>5 DEF Dropped, SameLink, SameTurn, SameLedger, Working
<1>7. Safe(t)
  BY <1>6, DroppedIsSafe DEF Silent
<1> QED
  BY <1>3, <1>4, <1>5, <1>7, TryTeardownIsSafe

LEMMA FinishExtensionIsSafe ==
    ASSUME NEW s \in State, Safe(s), Silent(s), Resting(s), FinishExtension(s)
    PROVE  c' \in State /\ Safe(c')
<1> DEFINE t == [s EXCEPT !.scan = FALSE, !.cached = FALSE, !.pass = FALSE,
                          !.position = 1, !.read = FALSE, !.module = 0]
<1>1. \/ c' = Ended(t, "otherwise")
      \/ TryTeardown(Released(t), 0)
      \/ c' = Restored(t)
  BY DEF FinishExtension
<1>2. 0 \in 0 .. Modules /\ 1 \in 1 .. Modules + 1 /\ 0 \in 0 .. Attempts
  BY CoordinatorAssumption
<1>3. /\ t \in State /\ t.wire = s.wire /\ SameLedger(s, t)
      /\ SameLink(s, t) /\ SameTurn(s, t)
      /\ t.scan = FALSE /\ t.read = FALSE /\ t.job = s.job /\ t.restore = s.restore
      /\ t.wait = s.wait
  BY <1>2 DEF State, SameLedger, SameLink, SameTurn
<1> HIDE DEF t
<1>4. Dropped(s, t) /\ Silent(t) /\ Resting(t)
  BY <1>3 DEF Dropped, SameLink, SameTurn, Silent, Resting, Working
<1>5. Safe(t)
  BY <1>4, DroppedIsSafe DEF Silent
<1>6. CASE c' = Ended(t, "otherwise")
  BY <1>3, <1>5, <1>6, EndedIsSafe
<1>7. CASE TryTeardown(Released(t), 0)
  <2>1. Released(t) \in State /\ Safe(Released(t))
    BY <1>3, <1>4, <1>5, ReleasedIsSafe
  <2> QED
    BY <1>2, <1>7, <2>1, TryTeardownIsSafe
<1>8. CASE c' = Restored(t)
  BY <1>3, <1>4, <1>5, <1>8, RestoredIsSafe
<1> QED
  BY <1>1, <1>6, <1>7, <1>8

\* Work that changes hands while no command is on the wire.
LEMMA WorkIsSafe ==
    ASSUME NEW s \in State, Safe(s), Silent(s), NEW t \in State,
           t.wire = s.wire, SameLink(s, t), SameTurn(s, t), SameLedger(s, t),
           t.scan => s.scan, t.started \/ (~t.read /\ t.restore = "none" /\ t.wait = NoWait),
           t.job => s.job \/ s.link = "live",
           ~s.stranded /\ s.link # "down" =>
              Alone(t) /\ (Working(t) => t.held) /\ (t.wait # NoWait => ~t.job)
    PROVE  Safe(t)
<1>1. LinkInvariant(t)
  BY DEF Safe, Lawful, SameLink, SameLedger, LinkInvariant
<1>2. CustodyInvariant(t)
  BY DEF SameLink, CustodyInvariant, Silent
<1>3. EntryInvariant(t)
  BY DEF Safe, Lawful, SameLink, SameTurn, SameLedger, EntryInvariant
<1>4. ExitInvariant(t)
  BY DEF Safe, Lawful, SameLink, SameTurn, SameLedger, ExitInvariant
<1>5. UnderWay(t)
  BY DEF Safe, SameLink, SameTurn, SameLedger, UnderWay
<1> QED
  BY <1>1, <1>2, <1>3, <1>4, <1>5 DEF Safe, Lawful

\* A command that enters no session, of the operation that has the wire.
LEMMA SendIsSafe ==
    ASSUME NEW s \in State, Safe(s), CanWrite(s), s.started, NEW command \in Commands,
           command # Quiet, command.op # "session", command.what # "enter",
           ~s.stranded => Handler(s) = command.op, NEW t, t = Sent(s, command)
    PROVE  t \in State /\ Safe(t)
<1>1. s.held /\ s.wire = Quiet /\ s.link # "down"
  BY DEF CanWrite, Safe, Lawful, LinkInvariant
<1>2. /\ t \in State /\ t.wire = command
      /\ t.mode = s.mode /\ t.stage = s.stage /\ t.index = s.index
      /\ t.skipped = s.skipped
      /\ SameLink(s, t) /\ SameWork(s, t) /\ SameLedger(s, t)
  BY SentIs
<1>3. LinkInvariant(t)
  BY <1>1, <1>2 DEF Safe, Lawful, SameLink, SameWork, SameLedger, LinkInvariant
<1>4. CustodyInvariant(t)
  BY <1>1, <1>2 DEF Safe, Lawful, SameLink, SameWork, CustodyInvariant, Alone, Working,
     Handler
<1>5. EntryInvariant(t)
  BY <1>1, <1>2, CommandTypes
  DEF Safe, Lawful, SameLink, SameWork, SameLedger, EntryInvariant
<1>6. ExitInvariant(t)
  <2>1. ~s.stranded => s.mode = "NONE"
    BY DEF Handler
  <2> QED
    BY <1>1, <1>2, <2>1 DEF Safe, Lawful, SameLink, SameWork, SameLedger, ExitInvariant
<1>7. UnderWay(t)
  BY <1>2 DEF Safe, SameLink, SameLedger, UnderWay
<1> QED
  BY <1>2, <1>3, <1>4, <1>5, <1>6, <1>7 DEF Safe, Lawful

-----------------------------------------------------------------------------
(* Reads *)

LEMMA NextStartupReadIsSafe ==
    ASSUME NEW s \in State, Safe(s), Silent(s), Resting(s), s.started, s.link # "down",
           NextStartupRead(s)
    PROVE  c' \in State /\ Safe(c')
<1>1. ASSUME NEW m \in StartupData,
             s.position <= m, m <= s.count, CanWrite(s),
             c' = Sent([s EXCEPT !.read = TRUE, !.module = m, !.live = FALSE,
                                 !.position = m + 1,
                                 !.wait = IF \E j \in StartupData :
                                               s.position <= j /\ j < m
                                            THEN NoWait ELSE @],
                       Command("read", m, "none"))
      PROVE  c' \in State /\ Safe(c')
  <2> DEFINE w == IF \E j \in StartupData : s.position <= j /\ j < m
                    THEN NoWait ELSE s.wait
             t == [s EXCEPT !.read = TRUE, !.module = m, !.live = FALSE,
                            !.position = m + 1, !.wait = w]
             command == Command("read", m, "none")
  <2>1. w \in {NoWait, s.wait} /\ w \in Waits
    BY CommandTypes DEF State
  <2>2. m \in 0 .. Modules /\ m + 1 \in 1 .. Modules + 1
    BY CoordinatorAssumption DEF All
  <2>3. c' = Sent(t, command)
    BY <1>1
  <2>4. /\ command \in Commands /\ command # Quiet /\ command.op = "read"
        /\ command.what = "none"
    BY <2>2, CommandTypes DEF Operations
  <2> HIDE DEF w, command
  <2>5. /\ t \in State /\ t.wire = s.wire
        /\ SameLink(s, t) /\ SameTurn(s, t) /\ SameLedger(s, t)
    BY <2>1, <2>2 DEF State, SameLink, SameTurn, SameLedger
  <2>6. /\ t.scan = s.scan /\ t.restore = s.restore /\ t.job = s.job
        /\ t.read = TRUE /\ t.wait = w
    BY DEF State
  <2> HIDE DEF t
  <2>7. s.held
    BY <1>1 DEF CanWrite
  <2>8. ~s.stranded => s.mode = "NONE" /\ s.restore = "none" /\ ~s.scan
    BY DEF Resting, Working
  <2>9. Safe(t)
    <3>1. ~s.stranded => Alone(t) /\ (t.wait # NoWait => ~t.job) /\ t.held
      BY <2>1, <2>5, <2>6, <2>7, <2>8
      DEF SameTurn, SameLink, Alone, Safe, Lawful, CustodyInvariant
    <3> QED
      BY <2>5, <2>6, <3>1, WorkIsSafe DEF SameLink
  <2>10. CanWrite(t) /\ t.started /\ (~t.stranded => Handler(t) = "read")
    BY <1>1, <2>5, <2>6, <2>8 DEF CanWrite, SameLink, SameTurn, Handler
  <2> QED
    BY <2>3, <2>4, <2>5, <2>9, <2>10, SendIsSafe
<1>2. CASE FinishExtension([s EXCEPT !.job = FALSE])
  <2> DEFINE t == [s EXCEPT !.job = FALSE]
  <2>1. /\ t \in State /\ t.wire = s.wire
        /\ SameLink(s, t) /\ SameTurn(s, t) /\ SameLedger(s, t)
        /\ t.scan = s.scan /\ t.read = s.read /\ t.restore = s.restore
        /\ t.job = FALSE /\ t.wait = s.wait
    BY DEF State, SameLink, SameTurn, SameLedger
  <2>2. FinishExtension(t)
    BY <1>2
  <2> HIDE DEF t
  <2>3. Dropped(s, t) /\ Silent(t) /\ Resting(t)
    BY <2>1 DEF SameLink, SameTurn, Dropped, Silent, Resting, Working
  <2>4. Safe(t)
    BY <2>3, DroppedIsSafe DEF Silent
  <2> QED
    BY <2>1, <2>2, <2>3, <2>4, FinishExtensionIsSafe
<1> QED
  BY <1>1, <1>2 DEF NextStartupRead

LEMMA RestoreCommandIsSafe ==
    ASSUME NEW s \in State, Safe(s), CanWrite(s), s.started,
           ~s.stranded => ~s.scan /\ ~s.read /\ s.mode = "NONE",
           s.wait # NoWait => ~s.job \/ s.stranded,
           NEW stage \in {"header", "filter"},
           c' = Sent([s EXCEPT !.restore = stage], Command("restore", 0, "none"))
    PROVE  c' \in State /\ Safe(c')
<1> DEFINE t == [s EXCEPT !.restore = stage]
           command == Command("restore", 0, "none")
<1>1. c' = Sent(t, command)
  OBVIOUS
<1>2. 0 \in 0 .. Modules
  BY CoordinatorAssumption
<1>3. /\ command \in Commands /\ command # Quiet /\ command.op = "restore"
      /\ command.what = "none"
  BY <1>2, CommandTypes DEF Operations
<1>4. /\ t \in State /\ t.wire = s.wire
      /\ SameLink(s, t) /\ SameTurn(s, t) /\ SameLedger(s, t)
      /\ t.scan = s.scan /\ t.read = s.read /\ t.restore = stage /\ t.job = s.job
      /\ t.wait = s.wait
  BY DEF State, SameLink, SameTurn, SameLedger
<1> HIDE DEF t, command
<1>5. ~s.stranded => Alone(t) /\ t.held /\ (t.wait # NoWait => ~t.job)
  BY <1>4 DEF Alone, CanWrite, SameTurn, SameLink
<1>6. Safe(t)
  BY <1>4, <1>5, WorkIsSafe DEF Silent, CanWrite, SameLink
<1>7. CanWrite(t) /\ t.started /\ (~t.stranded => Handler(t) = "restore")
  BY <1>4 DEF CanWrite, SameLink, SameTurn, Handler
<1> QED
  BY <1>1, <1>3, <1>4, <1>6, <1>7, SendIsSafe

LEMMA BeginRestoreIsSafe ==
    ASSUME NEW s \in State, Safe(s), Silent(s), Resting(s), s.started, s.link # "down",
           s.wait = NoWait, BeginRestore(s)
    PROVE  c' \in State /\ Safe(c')
<1>1. CASE /\ CanWrite(s)
           /\ c' = Sent([s EXCEPT !.restore = "header"], Command("restore", 0, "none"))
  BY <1>1, RestoreCommandIsSafe DEF Resting, Working
<1>2. CASE c' = RestoredOrFailed([s EXCEPT !.restore = "none", !.job = FALSE])
  <2> DEFINE t == [s EXCEPT !.restore = "none", !.job = FALSE]
  <2>1. /\ t \in State /\ t.wire = s.wire
        /\ SameLink(s, t) /\ SameTurn(s, t) /\ SameLedger(s, t)
        /\ t.scan = s.scan /\ t.read = s.read /\ t.restore = "none"
        /\ t.job = FALSE /\ t.wait = s.wait
    BY DEF State, SameLink, SameTurn, SameLedger
  <2>2. c' = RestoredOrFailed(t)
    BY <1>2
  <2> HIDE DEF t
  <2>3. Dropped(s, t) /\ Silent(t) /\ Resting(t)
    BY <2>1 DEF SameLink, SameTurn, Dropped, Silent, Resting, Working
  <2>4. Safe(t)
    BY <2>3, DroppedIsSafe DEF Silent
  <2> QED
    BY <2>1, <2>2, <2>3, <2>4, RestoredOrFailedIsSafe
<1> QED
  BY <1>1, <1>2 DEF BeginRestore

\* The operation under way is a read.
Reading(s) == ~s.stranded => s.mode = "NONE" /\ s.restore = "none" /\ s.read /\ ~s.scan

LEMMA FinishReadIsSafe ==
    ASSUME NEW s \in State, Safe(s), Silent(s), Reading(s), s.started, s.link # "down",
           FinishRead(s)
    PROVE  c' \in State /\ Safe(c')
<1> DEFINE t == [s EXCEPT !.read = FALSE, !.module = 0, !.live = FALSE,
                          !.wait = NoWait]
<1>1. \/ FinishCurrentWork(t)
      \/ NextStartupRead(t)
      \/ BeginRestore(t)
      \/ c' = UpdateJob(RestoredOrFailed([t EXCEPT !.job = FALSE]))
  BY DEF FinishRead
<1>2. 0 \in 0 .. Modules /\ NoWait \in Waits
  BY CoordinatorAssumption, CommandTypes
<1>3. /\ t \in State /\ t.wire = s.wire
      /\ SameLink(s, t) /\ SameTurn(s, t) /\ SameLedger(s, t)
      /\ t.scan = s.scan /\ t.read = FALSE /\ t.restore = s.restore
      /\ t.job = s.job /\ t.wait = NoWait
  BY <1>2 DEF State, SameLink, SameTurn, SameLedger
<1> HIDE DEF t
<1>4. Dropped(s, t) /\ Silent(t)
  BY <1>3 DEF SameLink, SameTurn, Dropped, Silent
<1>5. Resting(t)
  BY <1>3 DEF Reading, SameLink, SameTurn, Resting, Working
<1>6. Safe(t)
  BY <1>4, DroppedIsSafe DEF Silent
<1>7. (t.mode = "NONE" \/ t.stranded) /\ t.started /\ t.link # "down"
  BY <1>3 DEF Reading, SameLink, SameTurn
<1>8. CASE FinishCurrentWork(t)
  BY <1>3, <1>4, <1>6, <1>7, <1>8, FinishCurrentWorkIsSafe
<1>9. CASE NextStartupRead(t)
  BY <1>3, <1>4, <1>5, <1>6, <1>7, <1>9, NextStartupReadIsSafe
<1>10. CASE BeginRestore(t)
  BY <1>3, <1>4, <1>5, <1>6, <1>7, <1>10, BeginRestoreIsSafe
<1>11. CASE c' = UpdateJob(RestoredOrFailed([t EXCEPT !.job = FALSE]))
  <2> DEFINE u == [t EXCEPT !.job = FALSE]
             v == RestoredOrFailed(u)
  <2>1. /\ u \in State /\ u.wire = t.wire
        /\ SameLink(t, u) /\ SameTurn(t, u) /\ SameLedger(t, u)
        /\ u.scan = t.scan /\ u.read = t.read /\ u.restore = t.restore
        /\ u.job = FALSE /\ u.wait = t.wait
    BY <1>3 DEF State, SameLink, SameTurn, SameLedger
  <2>2. c' = UpdateJob(v)
    BY <1>11
  <2>3. v = RestoredOrFailed(u)
    OBVIOUS
  <2> HIDE DEF u, v
  <2>4. Dropped(t, u) /\ Silent(u) /\ Resting(u)
    BY <1>4, <1>5, <2>1 DEF SameLink, SameTurn, Dropped, Silent, Resting, Working
  <2>5. Safe(u)
    BY <1>3, <1>4, <1>6, <2>4, DroppedIsSafe DEF Silent
  <2>6. v \in State /\ Safe(v)
    BY <2>1, <2>3, <2>4, <2>5, RestoredOrFailedIsSafe
  <2> QED
    BY <2>2, <2>6, UpdateJobIsSafe
<1> QED
  BY <1>1, <1>8, <1>9, <1>10, <1>11

LEMMA ReadCommandIsSafe ==
    ASSUME NEW s \in State, Safe(s), Silent(s), Reading(s), s.started, s.link # "down",
           ReadCommand(s)
    PROVE  c' \in State /\ Safe(c')
<1>1. CASE CanWrite(s) /\ c' = Sent(s, Command("read", s.module, "none"))
  <2> DEFINE command == Command("read", s.module, "none")
  <2>1. /\ command \in Commands /\ command # Quiet /\ command.op = "read"
        /\ command.what = "none"
    BY CommandTypes DEF Operations, State
  <2>2. ~s.stranded => Handler(s) = "read"
    BY DEF Reading, Handler
  <2>3. c' = Sent(s, command)
    BY <1>1
  <2> HIDE DEF command
  <2> QED
    BY <1>1, <2>1, <2>2, <2>3, SendIsSafe
<1>2. CASE FinishRead(s)
  BY <1>2, FinishReadIsSafe
<1> QED
  BY <1>1, <1>2 DEF ReadCommand

\* A read of the user's that takes the wire of a scheduled job.
LEMMA StrandedIsSafe ==
    ASSUME NEW s \in State, Safe(s), s.started, s.link = "live",
           NEW t, t = [s EXCEPT !.stranded = TRUE]
    PROVE  t \in State /\ Safe(t) /\ t.wire = s.wire /\ t.stranded /\ t.started
           /\ t.link = s.link /\ t.wait = s.wait /\ t.job = s.job
<1>1. /\ t \in State /\ t.wire = s.wire /\ t.stranded = TRUE
      /\ t.link = s.link /\ t.held = s.held /\ t.started = s.started
      /\ t.selected = s.selected /\ t.ended = s.ended
      /\ SameWork(s, t) /\ SameTurn(s, t) /\ SameLedger(s, t)
  BY DEF State, SameWork, SameTurn, SameLedger
<1>2. LinkInvariant(t)
  BY <1>1 DEF Safe, Lawful, SameWork, SameLedger, LinkInvariant
<1>3. CustodyInvariant(t)
  BY <1>1 DEF CustodyInvariant
<1>4. EntryInvariant(t)
  BY <1>1 DEF Safe, Lawful, SameWork, SameTurn, SameLedger, EntryInvariant
<1>5. ExitInvariant(t)
  BY <1>1 DEF ExitInvariant
<1>6. UnderWay(t)
  BY <1>1 DEF Safe, SameTurn, SameLedger, UnderWay
<1> QED
  BY <1>1, <1>2, <1>3, <1>4, <1>5, <1>6 DEF Safe, Lawful, SameWork

\* The read has the wire: lent to it, its job's, or taken from a job.
TakenOver(s) ==
    [s EXCEPT !.held = @ \/ ~s.job, !.stranded = @ \/ (s.job /\ ~s.live)]

\* The job that reads is the scheduler's, and has the wire to itself.
OwnJob(s) ==
    s.job /\ s.live /\ ~s.stranded =>
        s.held /\ s.wire = Quiet /\ ~Working(s) /\ s.module \in Documented

\* Updates that change less than they name.
LEMMA LentOnly ==
    ASSUME NEW s \in State, NEW h, NEW d, d = s.stranded
    PROVE  [s EXCEPT !.held = h, !.stranded = d] = [s EXCEPT !.held = h]
BY DEF State
LEMMA StrandedOnly ==
    ASSUME NEW s \in State, NEW h, NEW d, h = s.held
    PROVE  [s EXCEPT !.held = h, !.stranded = d] = [s EXCEPT !.stranded = d]
BY DEF State
LEMMA NothingTaken ==
    ASSUME NEW s \in State, NEW h, NEW d, h = s.held, d = s.stranded
    PROVE  [s EXCEPT !.held = h, !.stranded = d] = s
BY DEF State

LEMMA TakenOverIs ==
    ASSUME NEW s \in State
    PROVE  /\ ~s.job => TakenOver(s) = [s EXCEPT !.held = TRUE]
           /\ s.job /\ (s.live \/ s.stranded) => TakenOver(s) = s
           /\ s.job /\ ~s.live /\ ~s.stranded => TakenOver(s) = [s EXCEPT !.stranded = TRUE]
<1> DEFINE h == s.held \/ ~s.job
           d == s.stranded \/ (s.job /\ ~s.live)
<1>1. TakenOver(s) = [s EXCEPT !.held = h, !.stranded = d]
  BY DEF TakenOver
<1>2. s.held \in BOOLEAN /\ s.stranded \in BOOLEAN /\ s.job \in BOOLEAN /\ s.live \in BOOLEAN
  BY DEF State
<1>3. /\ ~s.job => h = TRUE /\ d = s.stranded
      /\ s.job /\ (s.live \/ s.stranded) => h = s.held /\ d = s.stranded
      /\ s.job /\ ~s.live => h = s.held /\ d = TRUE
  BY <1>2
<1> HIDE DEF h, d
<1>4. CASE ~s.job
  <2>1. TakenOver(s) = [s EXCEPT !.held = h]
    BY <1>1, <1>3, <1>4, LentOnly
  <2>2. h = TRUE
    BY <1>3, <1>4
  <2> QED
    BY <1>4, <2>1, <2>2
<1>5. CASE s.job /\ (s.live \/ s.stranded)
  BY <1>1, <1>3, <1>5, NothingTaken
<1>6. CASE s.job /\ ~s.live /\ ~s.stranded
  <2>1. TakenOver(s) = [s EXCEPT !.stranded = d]
    BY <1>1, <1>3, <1>6, StrandedOnly
  <2>2. d = TRUE
    BY <1>3, <1>6
  <2> QED
    BY <1>6, <2>1, <2>2
<1> QED
  BY <1>4, <1>5, <1>6
LEMMA TakenOverIsSafe ==
    ASSUME NEW s \in State, Safe(s), s.started, s.link # "down", s.wait = NoWait,
           OwnJob(s), s.job \/ CanLend(s), NEW t, t = TakenOver(s)
    PROVE  /\ t \in State /\ Safe(t) /\ t.started /\ t.link = "live" /\ t.wait = NoWait
           /\ ~t.stranded => t.held /\ t.wire = Quiet /\ ~Working(t)
<1>1. CASE ~s.job
  <2>1. t = [s EXCEPT !.held = TRUE]
    BY <1>1, TakenOverIs
  <2> QED
    BY <1>1, <2>1, LentIsSafe
<1>2. s.job => s.link = "live"
  BY DEF Safe, Lawful, LinkInvariant, State
<1>3. CASE s.job /\ (s.live \/ s.stranded)
  <2>1. t = s
    BY <1>3, TakenOverIs
  <2> QED
    BY <1>2, <1>3, <2>1 DEF OwnJob
<1>4. CASE s.job /\ ~s.live /\ ~s.stranded
  <2>1. t = [s EXCEPT !.stranded = TRUE]
    BY <1>4, TakenOverIs
  <2> QED
    BY <1>2, <1>4, <2>1, StrandedIsSafe
<1> QED
  BY <1>1, <1>3, <1>4

\* A timer of a read, set or stopped, changes nothing else.
LEMMA WaitIsSafe ==
    ASSUME NEW s \in State, Safe(s), s.started, ~s.job, NEW t \in State,
           t.wire = s.wire, SameLink(s, t), SameTurn(s, t), SameLedger(s, t),
           t.scan = s.scan, t.read = s.read, t.restore = s.restore, t.job = s.job
    PROVE  Safe(t)
<1>1. LinkInvariant(t)
  BY DEF Safe, Lawful, SameLink, SameLedger, LinkInvariant
<1>2. CustodyInvariant(t)
  BY DEF Safe, Lawful, SameLink, SameTurn, CustodyInvariant, Alone, Working, Handler
<1>3. EntryInvariant(t)
  BY DEF Safe, Lawful, SameLink, SameTurn, SameLedger, EntryInvariant
<1>4. ExitInvariant(t)
  BY DEF Safe, Lawful, SameLink, SameTurn, SameLedger, ExitInvariant
<1>5. UnderWay(t)
  BY DEF Safe, SameLink, SameTurn, SameLedger, UnderWay
<1> QED
  BY <1>1, <1>2, <1>3, <1>4, <1>5 DEF Safe, Lawful

LEMMA AbandonedIs ==
    ASSUME NEW s \in State, NEW t,
           t = [s EXCEPT !.module = 0, !.live = FALSE, !.wait = NoWait]
    PROVE  /\ t \in State /\ t.wire = s.wire
           /\ SameLink(s, t) /\ SameTurn(s, t) /\ SameLedger(s, t)
           /\ t.scan = s.scan /\ t.read = s.read /\ t.restore = s.restore
           /\ t.job = s.job /\ t.wait = NoWait
<1> DEFINE u == [s EXCEPT !.module = 0, !.live = FALSE, !.wait = NoWait]
<1>1. 0 \in 0 .. Modules /\ NoWait \in Waits
  BY CoordinatorAssumption, CommandTypes
<1>2. u \in State
  BY <1>1 DEF State
<1>3. /\ u.wire = s.wire
      /\ SameLink(s, u) /\ SameTurn(s, u) /\ SameLedger(s, u)
      /\ u.scan = s.scan /\ u.read = s.read /\ u.restore = s.restore
      /\ u.job = s.job /\ u.wait = NoWait
  BY DEF State, SameLink, SameTurn, SameLedger
<1> QED
  BY <1>2, <1>3

LEMMA TryReadIsSafe ==
    ASSUME NEW s \in State, Safe(s), s.started, s.link # "down", s.wait = NoWait,
           OwnJob(s), NEW attempt \in 0 .. ReadAttempts, TryRead(s, attempt)
    PROVE  c' \in State /\ Safe(c')
<1> DEFINE t == TakenOver(s)
<1>0. 0 \in 0 .. Modules /\ NoWait \in Waits
  BY CoordinatorAssumption, CommandTypes
<1>1. ASSUME s.job \/ CanLend(s), s.module \in Documented,
             ReadCommand([t EXCEPT !.read = TRUE, !.wait = NoWait])
      PROVE  c' \in State /\ Safe(c')
  <2> DEFINE u == [t EXCEPT !.read = TRUE, !.wait = NoWait]
  <2>1. /\ t \in State /\ Safe(t) /\ t.started /\ t.link = "live" /\ t.wait = NoWait
        /\ ~t.stranded => t.held /\ t.wire = Quiet /\ ~Working(t)
    BY <1>1, TakenOverIsSafe
  <2>2. ReadCommand(u)
    BY <1>1
  <2> HIDE DEF t
  <2>3. /\ u \in State /\ u.wire = t.wire
        /\ SameLink(t, u) /\ SameTurn(t, u) /\ SameLedger(t, u)
        /\ u.scan = t.scan /\ u.read = TRUE /\ u.restore = t.restore /\ u.job = t.job
        /\ u.wait = NoWait
    BY <1>0, <2>1 DEF State, SameLink, SameTurn, SameLedger
  <2> HIDE DEF u
  <2>4. Silent(t) /\ Silent(u) /\ Reading(u)
    BY <2>1, <2>3 DEF Silent, Reading, SameLink, SameTurn, Working
  <2>5. ~t.stranded => Alone(u) /\ u.held
    BY <2>1, <2>3 DEF Alone, SameLink, SameTurn, Working
  <2>6. Safe(u)
    BY <2>1, <2>3, <2>4, <2>5, WorkIsSafe DEF SameLink
  <2> QED
    BY <2>1, <2>2, <2>3, <2>4, <2>6, ReadCommandIsSafe DEF SameLink
<1>2. ASSUME s.job \/ CanLend(s),
             c' = [Restored(t) EXCEPT !.module = 0, !.live = FALSE, !.wait = NoWait]
      PROVE  c' \in State /\ Safe(c')
  <2> DEFINE u == Restored(t)
  <2>1. /\ t \in State /\ Safe(t) /\ t.wait = NoWait
        /\ ~t.stranded => t.held /\ t.wire = Quiet /\ ~Working(t)
    BY <1>2, TakenOverIsSafe
  <2>2. c' = [u EXCEPT !.module = 0, !.live = FALSE, !.wait = NoWait]
    BY <1>2
  <2>3. u = Restored(t)
    OBVIOUS
  <2> HIDE DEF t, u
  <2>4. u \in State /\ Safe(u)
    BY <2>1, <2>3, RestoredIsSafe DEF Silent, Resting
  <2>5. u.wait = NoWait
    BY <2>1, <2>3 DEF Restored, State
  <2>6. /\ c' \in State /\ c'.wire = u.wire
        /\ SameLink(u, c') /\ SameWork(u, c') /\ SameTurn(u, c') /\ SameLedger(u, c')
    BY <2>2, <2>4, <2>5, AbandonedIs DEF SameWork
  <2> QED
    BY <2>4, <2>6, FramedIsSafe
<1>3. ASSUME ~s.job, attempt < ReadAttempts,
             c' = [s EXCEPT !.wait = [module |-> s.module, attempt |-> attempt + 1]]
      PROVE  c' \in State /\ Safe(c')
  <2> DEFINE w == [module |-> s.module, attempt |-> attempt + 1]
  <2>1. attempt + 1 \in 0 .. ReadAttempts
    BY <1>3, CoordinatorAssumption
  <2>2. w \in Waits
    BY <2>1 DEF State, Waits
  <2>3. c' = [s EXCEPT !.wait = w]
    BY <1>3
  <2> HIDE DEF w
  <2>4. /\ c' \in State /\ c'.wire = s.wire
        /\ SameLink(s, c') /\ SameTurn(s, c') /\ SameLedger(s, c')
        /\ c'.scan = s.scan /\ c'.read = s.read /\ c'.restore = s.restore
        /\ c'.job = s.job
    BY <2>2, <2>3 DEF State, SameLink, SameTurn, SameLedger
  <2> QED
    BY <1>3, <2>4, WaitIsSafe
<1>4. ASSUME ~s.job,
             c' = [s EXCEPT !.module = 0, !.live = FALSE, !.wait = NoWait]
      PROVE  c' \in State /\ Safe(c')
  <2>1. /\ c' \in State /\ c'.wire = s.wire
        /\ SameLink(s, c') /\ SameTurn(s, c') /\ SameLedger(s, c')
        /\ c'.scan = s.scan /\ c'.read = s.read /\ c'.restore = s.restore
        /\ c'.job = s.job
    BY <1>4, AbandonedIs
  <2> QED
    BY <1>4, <2>1, WaitIsSafe
<1> QED
  BY <1>1, <1>2, <1>3, <1>4 DEF TryRead, TakenOver

-----------------------------------------------------------------------------
(* Entering and leaving the sessions *)

\* A session is under way, and it is the controller's turn.
InSession(s) ==
    /\ Lawful(s) /\ Silent(s) /\ s.mode # "NONE" /\ s.started /\ s.link # "down"

LEMMA FinishedIsSafe ==
    ASSUME NEW s \in State, InSession(s), s.mode = "ESTABLISH", NEW t, t = Finished(s)
    PROVE  /\ t \in State /\ Safe(t) /\ Silent(t) /\ Resting(t) /\ t.started
           /\ t.link # "down" /\ ~t.scan
           /\ ~t.stranded => t.held
<1>1. /\ t \in State /\ t.mode = "NONE" /\ t.wire = s.wire /\ t.skipped = s.skipped
      /\ SameLink(s, t) /\ SameWork(s, t) /\ SameLedger(s, t)
  BY FinishedIs
<1>2. /\ ~s.scan
      /\ ~s.stranded => ~s.read /\ s.restore = "none" /\ s.held /\ s.wire = Quiet
  BY DEF InSession, Lawful, EntryInvariant, CustodyInvariant, Alone, Working, Silent
<1>3. LinkInvariant(t)
  BY <1>1 DEF InSession, Lawful, SameLink, SameWork, SameLedger, LinkInvariant
<1>4. CustodyInvariant(t)
  BY <1>1, <1>2 DEF InSession, Lawful, SameLink, SameWork, CustodyInvariant, Alone, Working
<1>5. EntryInvariant(t)
  BY <1>1, <1>2 DEF InSession, Lawful, SameLink, SameWork, SameLedger, EntryInvariant
<1>6. ExitInvariant(t)
  BY <1>1 DEF InSession, Lawful, SameLink, SameLedger, ExitInvariant
<1>7. UnderWay(t)
  BY <1>1 DEF UnderWay
<1> QED
  BY <1>1, <1>2, <1>3, <1>4, <1>5, <1>6, <1>7
  DEF Safe, Lawful, Silent, Resting, Working, InSession, SameLink, SameWork

LEMMA SessionDoneIsSafe ==
    ASSUME NEW s \in State, InSession(s), SessionDone(s),
           s.mode = "TEARDOWN" /\ ~s.stranded =>
              s.open \subseteq s.skipped \cup s.unmarked \cup (All \ Sessioned)
    PROVE  c' \in State /\ Safe(c')
<1>1. CASE s.mode = "TEARDOWN" /\ Closed(s)
  BY <1>1, ClosedIsSafe DEF InSession
<1>2. CASE s.mode = "ESTABLISH" /\ Teardown(Finished(s))
  <2> DEFINE t == Finished(s)
  <2>1. /\ t \in State /\ Safe(t) /\ Silent(t) /\ Resting(t) /\ t.link # "down" /\ ~t.scan
        /\ ~t.stranded => t.held
    BY <1>2, FinishedIsSafe
  <2>2. Teardown(t)
    BY <1>2
  <2> HIDE DEF t
  <2> QED
    BY <2>1, <2>2, TeardownIsSafe DEF Safe, Silent, Resting, Working
<1>3. CASE /\ s.mode = "ESTABLISH"
           /\ NextStartupRead([Finished(s) EXCEPT !.pass = TRUE, !.position = 1])
  <2> DEFINE t == Finished(s)
             u == [t EXCEPT !.pass = TRUE, !.position = 1]
  <2>1. /\ t \in State /\ Safe(t) /\ Silent(t) /\ Resting(t) /\ t.started /\ t.link # "down"
    BY <1>3, FinishedIsSafe
  <2>2. NextStartupRead(u)
    BY <1>3
  <2> HIDE DEF t
  <2>3. 1 \in 1 .. Modules + 1
    BY CoordinatorAssumption
  <2>4. /\ u \in State /\ u.wire = t.wire
        /\ SameLink(t, u) /\ SameWork(t, u) /\ SameTurn(t, u) /\ SameLedger(t, u)
    BY <2>1, <2>3 DEF State, SameLink, SameWork, SameTurn, SameLedger
  <2> HIDE DEF u
  <2>5. Safe(u)
    BY <2>1, <2>4, FramedIsSafe
  <2>6. Silent(u) /\ Resting(u) /\ u.started /\ u.link # "down"
    BY <2>1, <2>4 DEF Silent, Resting, Working, SameLink, SameWork, SameTurn
  <2> QED
    BY <2>2, <2>4, <2>5, <2>6, NextStartupReadIsSafe
<1> QED
  BY <1>1, <1>2, <1>3 DEF SessionDone

LEMMA NextModuleIsSafe ==
    ASSUME NEW s \in State, InSession(s), NextModule(s)
    PROVE  c' \in State /\ Safe(c')
<1>1. CASE BeginSession(s)
  BY <1>1, BeginSessionIsSafe DEF InSession
<1>2. CASE SessionDone(NoneLeft(s))
  <2> DEFINE t == NoneLeft(s)
  <2>1. /\ t \in State /\ Lawful(t) /\ t.mode = s.mode
        /\ t.wire = s.wire /\ SameLink(s, t)
        /\ s.mode = "TEARDOWN" /\ s.link # "down" /\ ~s.stranded =>
             t.open \subseteq t.skipped \cup t.unmarked \cup (All \ Sessioned)
    BY NoneLeftIsSafe DEF InSession
  <2>2. SessionDone(t)
    BY <1>2
  <2> HIDE DEF t
  <2>3. InSession(t)
    BY <2>1 DEF InSession, Silent, SameLink
  <2> QED
    BY <2>1, <2>2, <2>3, SessionDoneIsSafe DEF InSession, SameLink
<1> QED
  BY <1>1, <1>2 DEF NextModule

LEMMA EstablishIsSafe ==
    ASSUME NEW s \in State, Safe(s), s.wire = Quiet, s.held, ~Working(s), s.started,
           s.link # "down", s.unmarked \cap (1 .. s.count) = {}, Establish(s)
    PROVE  c' \in State /\ Safe(c')
<1> DEFINE t == Begun(s, "ESTABLISH")
<1>1. /\ t \in State /\ t.mode = "ESTABLISH" /\ t.index = 1
      /\ t.wire = s.wire /\ t.skipped = s.skipped
      /\ SameLink(s, t) /\ SameWork(s, t) /\ SameLedger(s, t)
  BY BegunIs
<1>2. NextModule(t)
  BY DEF Establish
<1> HIDE DEF t
<1>3. LinkInvariant(t)
  BY <1>1 DEF Safe, Lawful, SameLink, SameWork, SameLedger, LinkInvariant
<1>4. CustodyInvariant(t)
  BY <1>1 DEF Safe, Lawful, SameLink, SameWork, CustodyInvariant, Alone, Working
<1>5. EntryInvariant(t)
  BY <1>1
  DEF Safe, Lawful, SameLink, SameWork, SameLedger, EntryInvariant, Working
<1>6. ExitInvariant(t)
  BY <1>1 DEF Safe, Lawful, SameLink, SameLedger, ExitInvariant
<1>7. InSession(t)
  BY <1>1, <1>3, <1>4, <1>5, <1>6 DEF InSession, Lawful, Silent, SameLink
<1> QED
  BY <1>1, <1>2, <1>7, NextModuleIsSafe

\* The next index, with the module behind it passed over or told to quit.
LEMMA StepOnIs ==
    ASSUME NEW s \in State, s.index <= s.count, NEW t, t = [s EXCEPT !.index = @ + 1]
    PROVE  /\ t \in State /\ t.wire = s.wire /\ t.index = s.index + 1
           /\ t.mode = s.mode /\ t.stage = s.stage /\ t.aim = s.aim
           /\ t.skipped = s.skipped
           /\ SameLink(s, t) /\ SameWork(s, t) /\ SameLedger(s, t)
<1>1. s.index + 1 \in 0 .. Modules + 1
  BY CoordinatorAssumption DEF State
<1> QED
  BY <1>1 DEF State, SameLink, SameWork, SameLedger

LEMMA SkipModuleIsSafe ==
    ASSUME NEW s \in State, InSession(s), s.index <= s.count, SkipModule(s)
    PROVE  c' \in State /\ Safe(c')
<1> DEFINE ms == {s.index}
           p == PassedOver(s, ms)
           t == [p EXCEPT !.index = @ + 1]
<1>1. NextModule(t)
  BY DEF SkipModule
<1>2. s.index \in All /\ ms \in SUBSET All
  BY CoordinatorAssumption DEF InSession, Lawful, EntryInvariant, State, All
<1>0. ms = {s.index} /\ p = PassedOver(s, ms)
  OBVIOUS
<1> HIDE DEF ms, p
<1>3. /\ p \in State /\ Lawful(p)
      /\ p.mode = s.mode /\ p.stage = s.stage /\ p.index = s.index /\ p.aim = s.aim
      /\ p.wire = s.wire /\ SameLink(s, p) /\ SameWork(s, p) /\ SameLedger(s, p)
      /\ s.mode = "TEARDOWN" => p.skipped = s.skipped \cup ms
  BY <1>0, <1>2, PassedOverIsSafe DEF InSession
<1>4. p.index <= p.count
  BY <1>3 DEF SameLedger
<1>5. /\ t \in State /\ t.wire = p.wire /\ t.index = p.index + 1
      /\ t.mode = p.mode /\ t.stage = p.stage /\ t.aim = p.aim
      /\ t.skipped = p.skipped
      /\ SameLink(p, t) /\ SameWork(p, t) /\ SameLedger(p, t)
  BY <1>3, <1>4, StepOnIs
<1> HIDE DEF t
<1>6. p.wire = Quiet \/ p.stranded
  BY <1>3 DEF InSession, Silent, SameLink
<1>7. LinkInvariant(t)
  BY <1>3, <1>5 DEF Lawful, SameLink, SameWork, SameLedger, LinkInvariant
<1>8. CustodyInvariant(t)
  BY <1>3, <1>5, <1>6 DEF Lawful, SameLink, SameWork, CustodyInvariant, Alone, Working
<1>9. EntryInvariant(t)
  <2>1. t.index # 0
    BY <1>2, <1>3, <1>5 DEF All
  <2> QED
    BY <1>3, <1>5, <2>1 DEF Lawful, SameLink, SameWork, SameLedger, EntryInvariant
<1>10. ExitInvariant(t)
  <2>1. ASSUME ~s.stranded, s.mode = "TEARDOWN", NEW m \in s.open \cap Sessioned
        PROVE  m \in p.skipped \cup s.unmarked \cup {j \in All : s.index + 1 <= j}
    <3>1. m \in All
      BY DEF State
    <3>2. m \in s.skipped \cup s.unmarked \cup {j \in All : s.index <= j}
      BY <2>1 DEF InSession, Lawful, ExitInvariant
    <3>3. s.index <= m => m = s.index \/ s.index + 1 <= m
      BY <1>2, <3>1 DEF All
    <3> QED
      BY <1>0, <1>3, <2>1, <3>1, <3>2, <3>3
  <2> QED
    BY <1>3, <1>5, <1>6, <2>1 DEF Lawful, SameLink, SameLedger, ExitInvariant
<1>11. InSession(t)
  BY <1>3, <1>5, <1>6, <1>7, <1>8, <1>9, <1>10
  DEF InSession, Lawful, Silent, SameLink
<1> QED
  BY <1>1, <1>5, <1>11, NextModuleIsSafe

Entered(s, o, e) == [s EXCEPT !.open = o, !.entries = e]

LEMMA EnteredIs ==
    ASSUME NEW s \in State, NEW o \in SUBSET All, NEW e \in [All -> 0 .. 2],
           NEW t, t = Entered(s, o, e)
    PROVE  /\ t \in State /\ t.wire = s.wire /\ t.count = s.count
           /\ t.attempted = s.attempted /\ t.unmarked = s.unmarked
           /\ t.open = o /\ t.entries = e
           /\ SameLink(s, t) /\ SameWork(s, t) /\ SameTurn(s, t)
BY DEF Entered, State, SameLink, SameWork, SameTurn

\* The module m is asked to enter for the first time.
Asked(s, ecus, m, t) ==
    /\ t \in State /\ t.wire = s.wire
    /\ SameLink(s, t) /\ SameWork(s, t) /\ SameTurn(s, t)
    /\ t.count = s.count /\ t.attempted = s.attempted /\ t.unmarked = s.unmarked
    /\ t.open = s.open \cup ecus
    /\ \A j \in All : t.entries[j] = IF j = m THEN 1 ELSE s.entries[j]

LEMMA AskedIs ==
    ASSUME NEW s \in State, NEW ecus \in SUBSET All, NEW m \in All, s.entries[m] = 0,
           NEW t, t = AskedToEnter(s, ecus, m)
    PROVE  Asked(s, ecus, m, t)
<1> DEFINE e == [s.entries EXCEPT ![m] = IF @ = 0 THEN 1 ELSE 2]
           o == s.open \cup ecus
<1>1. s.entries \in [All -> 0 .. 2]
  BY DEF State
<1>2. e \in [All -> 0 .. 2]
  BY <1>1
<1>3. \A j \in All : e[j] = IF j = m THEN 1 ELSE s.entries[j]
  BY <1>1
<1>4. o \in SUBSET All /\ o = s.open \cup ecus
  BY DEF State
<1>5. t = Entered(s, o, e)
  BY DEF AskedToEnter, Entered
<1> HIDE DEF e, o
<1>6. /\ t \in State /\ t.wire = s.wire /\ t.count = s.count
      /\ t.attempted = s.attempted /\ t.unmarked = s.unmarked
      /\ t.open = o /\ t.entries = e
      /\ SameLink(s, t) /\ SameWork(s, t) /\ SameTurn(s, t)
  BY <1>2, <1>4, <1>5, EnteredIs
<1> QED
  BY <1>3, <1>4, <1>6 DEF Asked

LEMMA MarkedIs ==
    ASSUME NEW s \in State, NEW m \in All, NEW t, t = [s EXCEPT !.attempted = @ \cup {m}]
    PROVE  /\ t \in State /\ t.wire = s.wire
           /\ SameLink(s, t) /\ SameWork(s, t) /\ SameTurn(s, t)
           /\ t.count = s.count /\ t.attempted = s.attempted \cup {m}
           /\ t.open = s.open /\ t.entries = s.entries /\ t.unmarked = s.unmarked
BY DEF State, SameLink, SameWork, SameTurn

LEMMA ToldToQuitIs ==
    ASSUME NEW s \in State, NEW m, NEW t, t = [s EXCEPT !.open = @ \ {m}]
    PROVE  /\ t \in State /\ t.wire = s.wire
           /\ SameLink(s, t) /\ SameWork(s, t) /\ SameTurn(s, t)
           /\ t.count = s.count /\ t.attempted = s.attempted /\ t.open = s.open \ {m}
           /\ t.entries = s.entries /\ t.unmarked = s.unmarked
BY DEF State, SameLink, SameWork, SameTurn

\* The module of a session can be addressed, and asked.
LEMMA NotAsked ==
    ASSUME NEW s \in State, InSession(s), s.mode = "ESTABLISH", s.index <= s.count,
           s.index \notin s.attempted
    PROVE  s.index \in All /\ s.entries[s.index] = 0
<1>1. s.index \in All /\ s.index \in 1 .. s.count
  BY CoordinatorAssumption DEF InSession, Lawful, EntryInvariant, State, All
<1>2. s.index \notin s.unmarked
  BY <1>1 DEF InSession, Lawful, EntryInvariant
<1>3. s.entries[s.index] # 1 /\ s.entries[s.index] <= 1
  BY <1>1, <1>2 DEF InSession, Lawful, EntryInvariant
<1>4. s.entries[s.index] \in 0 .. 2
  BY <1>1 DEF State
<1> QED
  BY <1>1, <1>3, <1>4

\* What sending a command of a session comes to, before it is heard.
SentOn(s, t) ==
    /\ t \in State /\ t.wire.op = "session" /\ t.wire.module = s.index
    /\ t.wire.what = s.stage /\ t.wire # Quiet
    /\ t.mode = s.mode /\ t.stage = s.stage /\ t.index = s.index
    /\ t.skipped = s.skipped /\ SameLink(s, t) /\ SameWork(s, t)
    /\ t.count = s.count /\ t.unmarked = s.unmarked
    /\ ~s.stranded => t.aim = s.index

LEMMA SentOnIsSafe ==
    ASSUME NEW s \in State, InSession(s), CanWrite(s), NEW t, SentOn(s, t),
           s.stage # "NONE",
           \A j \in All :
              /\ t.entries[j] <= 1
              /\ t.entries[j] = 1 => j \in t.attempted \cup t.unmarked \/ s.mode = "TEARDOWN",
           t.attempted \subseteq 1 .. s.count,
           s.mode = "ESTABLISH" /\ s.stage # "CONTROL" => s.index \notin t.attempted,
           ~s.stranded => t.open \subseteq t.attempted \cup t.unmarked,
           ~s.stranded /\ s.mode = "TEARDOWN" =>
              /\ t.open \subseteq s.open
              /\ s.stage = "CONTROL" => s.index \notin t.open
    PROVE  Safe(t)
<1>1. s.link # "down" /\ s.mode # "NONE"
  BY DEF InSession
<1>2. LinkInvariant(t)
  BY <1>1 DEF InSession, Lawful, CanWrite, SentOn, SameLink, SameWork, LinkInvariant
<1>3. CustodyInvariant(t)
  BY <1>1 DEF InSession, Lawful, CanWrite, SentOn, SameLink, SameWork, CustodyInvariant,
     Alone, Working, Handler
<1>4. EntryInvariant(t)
  BY <1>1 DEF InSession, Lawful, SentOn, SameLink, SameWork, EntryInvariant
<1>5. ExitInvariant(t)
  <2>1. t.ended # "teardown"
    BY <1>1 DEF InSession, Lawful, LinkInvariant, SentOn, SameLink
  <2> QED
    BY <2>1 DEF InSession, Lawful, SentOn, SameLink, ExitInvariant
<1>6. UnderWay(t)
  BY DEF SentOn, UnderWay
<1> QED
  BY <1>2, <1>3, <1>4, <1>5, <1>6 DEF Safe, Lawful

LEMMA SessionCommandIsSafe ==
    ASSUME NEW s \in State, InSession(s), s.index <= s.count,
           s.stage \in SessionStages, s.stage # "PROTOCOL",
           s.mode = "ESTABLISH" => s.index \notin s.attempted,
           ~s.stranded /\ s.stage # "HEADER" => s.aim = s.index,
           SessionCommand(s)
    PROVE  c' \in State /\ Safe(c')
<1>1. ASSUME CanWrite(s),
             c' = Heard(Marked(Sent(s, Command("session", s.index, s.stage))))
      PROVE  c' \in State /\ Safe(c')
  <2> DEFINE command == Command("session", s.index, s.stage)
             r == Sent(s, command)
  <2>1. s.index \in All /\ s.index \in 0 .. Modules /\ s.index \in 1 .. s.count
    BY CoordinatorAssumption DEF InSession, Lawful, EntryInvariant, State, All
  <2>2. /\ command \in Commands /\ command # Quiet /\ command.op = "session"
        /\ command.module = s.index /\ command.what = s.stage
    BY <2>1, CommandTypes DEF Operations
  <2>3. c' = Heard(Marked(r)) /\ r = Sent(s, command)
    BY <1>1
  <2> HIDE DEF command, r
  <2>4. /\ r \in State /\ r.wire = command
        /\ r.mode = s.mode /\ r.stage = s.stage /\ r.index = s.index
        /\ r.skipped = s.skipped
        /\ SameLink(s, r) /\ SameWork(s, r) /\ SameLedger(s, r)
        /\ r.aim = IF command.what = "HEADER" THEN command.module ELSE s.aim
    BY <2>2, <2>3, SentIs
  <2>5. SentOn(s, r) /\ r.attempted = s.attempted /\ r.open = s.open /\ r.entries = s.entries
    BY <2>2, <2>4 DEF SentOn, SameLedger
  <2>6. /\ \A j \in All :
            /\ s.entries[j] <= 1
            /\ s.entries[j] = 1 =>
                 j \in s.attempted \cup s.unmarked \/ s.mode = "TEARDOWN"
        /\ s.attempted \subseteq 1 .. s.count
        /\ ~s.stranded => s.open \subseteq s.attempted \cup s.unmarked
        /\ s.stage # "NONE" /\ r.unmarked = s.unmarked
    BY <2>5, StageNames DEF InSession, Lawful, EntryInvariant, ExitInvariant, SentOn
  <2>7. CASE s.stage # "CONTROL"
    <3>1. c' = r
      BY <2>3, <2>4, <2>7 DEF Heard, Marked
    <3>2. Safe(r)
      BY <1>1, <2>5, <2>6, <2>7, SentOnIsSafe
    <3> QED
      BY <2>4, <3>1, <3>2
  <2>8. CASE s.stage = "CONTROL" /\ s.mode = "TEARDOWN"
    <3>1. c' = [r EXCEPT !.open = @ \ {r.aim}]
      BY <2>3, <2>4, <2>8 DEF Heard, Marked
    <3>2. /\ c' \in State /\ c'.wire = r.wire
          /\ SameLink(r, c') /\ SameWork(r, c') /\ SameTurn(r, c')
          /\ c'.count = r.count /\ c'.attempted = r.attempted
          /\ c'.open = r.open \ {r.aim}
          /\ c'.entries = r.entries /\ c'.unmarked = r.unmarked
      BY <2>4, <3>1, ToldToQuitIs
    <3>3. SentOn(s, c')
      BY <2>5, <3>2 DEF SentOn, SameLink, SameWork, SameTurn
    <3>4. ~s.stranded => s.index \notin c'.open
      BY <2>5, <3>2 DEF SentOn
    <3> QED
      BY <1>1, <2>5, <2>6, <2>8, <3>2, <3>3, <3>4, SentOnIsSafe
  <2>9. CASE s.stage = "CONTROL" /\ s.mode # "TEARDOWN"
    <3> DEFINE m == Marked(r)
               ecus == {m.aim} \ {0}
               k == s.index
    <3>1. s.mode = "ESTABLISH" /\ s.entries[s.index] = 0
      BY <2>9, NotAsked DEF InSession, State
    <3>2. m = [r EXCEPT !.attempted = @ \cup {r.index}]
      BY <2>4, <2>9, <3>1 DEF Marked
    <3>3. c' = Heard(m) /\ ecus = {m.aim} \ {0}
      BY <2>3
    <3> HIDE DEF m
    <3>4. /\ m \in State /\ m.wire = r.wire
          /\ SameLink(r, m) /\ SameWork(r, m) /\ SameTurn(r, m)
          /\ m.count = r.count /\ m.attempted = r.attempted \cup {r.index}
          /\ m.open = r.open /\ m.entries = r.entries /\ m.unmarked = r.unmarked
      BY <2>1, <2>4, <3>2, MarkedIs
    <3>5. m.aim \in 0 .. Modules
      BY <3>4 DEF State
    <3>6. ecus \in SUBSET All
      BY <3>5, CoordinatorAssumption DEF All
    <3>7. c' = AskedToEnter(m, ecus, k)
      BY <2>4, <2>9, <3>3, <3>4 DEF Heard, SameTurn
    <3>8. k = s.index /\ k \in All /\ m.entries[k] = 0
      BY <2>1, <2>5, <3>1, <3>4
    <3> HIDE DEF ecus, k
    <3>9. Asked(m, ecus, k, c')
      BY <3>4, <3>6, <3>7, <3>8, AskedIs
    <3>10. /\ c'.attempted = s.attempted \cup {s.index} /\ c'.open = s.open \cup ecus
           /\ c'.unmarked = s.unmarked
           /\ \A j \in All : c'.entries[j] = IF j = s.index THEN 1 ELSE s.entries[j]
      BY <2>4, <2>5, <2>6, <3>4, <3>8, <3>9 DEF Asked
    <3>11. SentOn(s, c')
      BY <2>5, <3>4, <3>9 DEF Asked, SentOn, SameLink, SameWork, SameTurn
    <3>12. ~s.stranded => ecus \subseteq {s.index}
      BY <2>5, <3>3, <3>4 DEF SentOn, SameTurn
    <3>13. \A j \in All :
              /\ c'.entries[j] <= 1
              /\ c'.entries[j] = 1 =>
                   j \in c'.attempted \cup c'.unmarked \/ s.mode = "TEARDOWN"
      BY <2>6, <3>10
    <3>14. /\ c'.attempted \subseteq 1 .. s.count
           /\ ~s.stranded => c'.open \subseteq c'.attempted \cup c'.unmarked
      BY <2>1, <2>6, <3>10, <3>12
    <3> QED
      BY <1>1, <2>6, <2>9, <3>1, <3>11, <3>13, <3>14, SentOnIsSafe DEF SentOn
  <2> QED
    BY <2>7, <2>8, <2>9
<1>2. CASE SkipModule(s)
  BY <1>2, SkipModuleIsSafe
<1> QED
  BY <1>1, <1>2 DEF SessionCommand

LEMMA AnswerSessionIsSafe ==
    ASSUME NEW s \in State, Safe(s), InSession(s),
           ~s.stranded /\ s.stage # "PROTOCOL" => s.aim = s.index,
           ~s.stranded /\ s.mode = "TEARDOWN" /\ s.stage = "CONTROL" =>
              s.index \notin s.open,
           AnswerSession(s)
    PROVE  c' \in State /\ Safe(c')
<1>1. s.index <= s.count => s.index \in All
  BY CoordinatorAssumption DEF InSession, Lawful, EntryInvariant, State, All
<1>2. s.stage \in SessionStages
  BY DEF Safe, UnderWay, InSession, State
<1>3. CASE c' = s
  BY <1>3
<1>4. ASSUME s.index <= s.count, s.stage # "CONTROL",
             SessionCommand([s EXCEPT !.stage = NextStage[s.stage]])
      PROVE  c' \in State /\ Safe(c')
  <2> DEFINE n == NextStage[s.stage]
             t == [s EXCEPT !.stage = n]
  <2>1. /\ n \in SessionStages /\ n # "PROTOCOL" /\ n # "NONE"
        /\ n # "HEADER" => s.stage # "PROTOCOL"
    BY <1>2, <1>4, StageNames
  <2>2. SessionCommand(t)
    BY <1>4
  <2> HIDE DEF n
  <2>3. /\ t \in State /\ t.wire = s.wire /\ t.stage = n
        /\ t.mode = s.mode /\ t.index = s.index /\ t.aim = s.aim /\ t.skipped = s.skipped
        /\ SameLink(s, t) /\ SameWork(s, t) /\ SameLedger(s, t)
    BY <2>1 DEF State, SameLink, SameWork, SameLedger
  <2> HIDE DEF t
  <2>4. LinkInvariant(t)
    BY <2>3 DEF InSession, Lawful, SameLink, SameWork, SameLedger, LinkInvariant
  <2>5. CustodyInvariant(t)
    BY <2>3
    DEF InSession, Lawful, Silent, SameLink, SameWork, CustodyInvariant, Alone, Working
  <2>6. EntryInvariant(t)
    BY <2>3 DEF InSession, Lawful, SameLink, SameWork, SameLedger, EntryInvariant
  <2>7. ExitInvariant(t)
    BY <2>3 DEF InSession, Lawful, Silent, SameLink, SameLedger, ExitInvariant
  <2>8. InSession(t)
    BY <2>3, <2>4, <2>5, <2>6, <2>7 DEF InSession, Lawful, Silent, SameLink
  <2>9. t.mode = "ESTABLISH" => t.index \notin t.attempted
    BY <1>4, <2>3 DEF InSession, Safe, UnderWay, SameLedger
  <2>10. ~t.stranded /\ t.stage # "HEADER" => t.aim = t.index
    BY <2>1, <2>3 DEF SameLink
  <2>11. t.index <= t.count
    BY <1>4, <2>3 DEF SameLedger
  <2> QED
    BY <2>1, <2>2, <2>3, <2>8, <2>9, <2>10, <2>11, SessionCommandIsSafe
<1>5. CASE s.index <= s.count /\ SkipModule(s)
  BY <1>5, SkipModuleIsSafe
<1>6. ASSUME s.index <= s.count, s.stage = "CONTROL",
             NextModule([s EXCEPT
                !.index = @ + 1,
                !.attempted = IF s.mode = "TEARDOWN" THEN @ \ {s.index} ELSE @])
      PROVE  c' \in State /\ Safe(c')
  <2> DEFINE a == IF s.mode = "TEARDOWN" THEN s.attempted \ {s.index} ELSE s.attempted
             t == [s EXCEPT !.index = @ + 1, !.attempted = a]
  <2>1. s.attempted \subseteq All /\ s.index + 1 \in 0 .. Modules + 1
    BY <1>1, <1>6, CoordinatorAssumption DEF State, All
  <2>2. /\ a \in SUBSET All /\ a \subseteq s.attempted
        /\ s.attempted \subseteq a \cup {s.index}
        /\ s.mode # "TEARDOWN" => a = s.attempted
    BY <2>1
  <2>3. NextModule(t)
    BY <1>6
  <2> HIDE DEF a
  <2>4. /\ t \in State /\ t.wire = s.wire /\ t.index = s.index + 1
        /\ t.attempted = a
        /\ t.mode = s.mode /\ t.stage = s.stage /\ t.skipped = s.skipped
        /\ SameLink(s, t) /\ SameWork(s, t)
        /\ t.count = s.count /\ t.open = s.open /\ t.entries = s.entries
        /\ t.unmarked = s.unmarked
    BY <2>1, <2>2 DEF State, SameLink, SameWork
  <2> HIDE DEF t
  <2>5. LinkInvariant(t)
    BY <2>4 DEF InSession, Lawful, SameLink, SameWork, LinkInvariant
  <2>6. CustodyInvariant(t)
    BY <2>4
    DEF InSession, Lawful, Silent, SameLink, SameWork, CustodyInvariant, Alone, Working
  <2>7. EntryInvariant(t)
    <3>1. t.index # 0
      BY <1>1, <1>6, <2>4 DEF All
    <3> QED
      BY <2>2, <2>4, <3>1 DEF InSession, Lawful, SameLink, SameWork, EntryInvariant
  <2>8. ExitInvariant(t)
    <3>1. ASSUME ~s.stranded, s.mode = "TEARDOWN", NEW m \in s.open \cap Sessioned
          PROVE  m \in s.skipped \cup s.unmarked \cup {j \in All : s.index + 1 <= j}
      <4>1. m \in All /\ m # s.index
        BY <1>6, <3>1 DEF State
      <4>2. m \in s.skipped \cup s.unmarked \cup {j \in All : s.index <= j}
        BY <3>1 DEF InSession, Lawful, ExitInvariant
      <4>3. s.index <= m /\ m # s.index => s.index + 1 <= m
        BY <1>1, <1>6, <4>1 DEF All
      <4> QED
        BY <4>1, <4>2, <4>3
    <3>2. ~s.stranded => s.open \subseteq a \cup s.unmarked
      BY <1>6, <2>2 DEF InSession, Lawful, ExitInvariant
    <3>3. t.ended # "teardown"
      BY <2>4 DEF InSession, Lawful, LinkInvariant, SameLink
    <3> QED
      BY <2>4, <3>1, <3>2, <3>3 DEF InSession, Silent, SameLink, ExitInvariant
  <2>9. InSession(t)
    BY <2>4, <2>5, <2>6, <2>7, <2>8 DEF InSession, Lawful, Silent, SameLink
  <2> QED
    BY <2>3, <2>4, <2>9, NextModuleIsSafe
<1> QED
  BY <1>3, <1>4, <1>5, <1>6 DEF AnswerSession

-----------------------------------------------------------------------------
(* The module scan *)

\* A scan is under way, and it is the controller's turn.
Scanning(s) ==
    /\ Safe(s) /\ s.wire = Quiet /\ s.scan /\ s.link = "starting"

LEMMA ScanningIs ==
    ASSUME NEW s, Scanning(s)
    PROVE  /\ s.started /\ ~s.stranded /\ s.held
           /\ s.mode = "NONE" /\ s.restore = "none" /\ ~s.read
           /\ s.unmarked \subseteq 1 .. s.count + 1 /\ s.unmarked \cap (1 .. s.count) = {}
           /\ Handler(s) = "scan" /\ Silent(s) /\ CanWrite(s)
<1>1. s.started /\ ~s.stranded
  BY DEF Scanning, Safe, Lawful, LinkInvariant
<1>2. s.held /\ s.mode = "NONE" /\ s.restore = "none" /\ ~s.read
  BY <1>1 DEF Scanning, Safe, Lawful, CustodyInvariant, Alone, Working
<1>3. s.unmarked \subseteq 1 .. s.count + 1 /\ s.unmarked \cap (1 .. s.count) = {}
  BY CommandTypes DEF Scanning, Safe, Lawful, EntryInvariant
<1> QED
  BY <1>1, <1>2, <1>3 DEF Scanning, Handler, Silent, CanWrite

\* The scan is over: given up, or every module was asked.
ScanOver(s, t) ==
    /\ t \in State /\ t.wire = s.wire /\ SameLink(s, t) /\ SameTurn(s, t)
    /\ SameLedger(s, t) /\ t.scan = FALSE /\ t.read = s.read /\ t.restore = s.restore
    /\ t.job = s.job /\ t.wait = s.wait

LEMMA ScanOverIsSafe ==
    ASSUME NEW s \in State, Scanning(s), NEW t, ScanOver(s, t)
    PROVE  Safe(t) /\ Silent(t) /\ Resting(t) /\ ~Working(t) /\ t.held /\ t.wire = Quiet
<1>1. ~Working(t) /\ t.held /\ t.wire = Quiet
  BY ScanningIs DEF ScanOver, Scanning, SameLink, SameTurn, Working
<1>2. Dropped(s, t)
  BY DEF ScanOver, Dropped, SameLink, SameTurn
<1>3. Safe(t)
  BY <1>2, ScanningIs, DroppedIsSafe DEF Scanning
<1> QED
  BY <1>1, <1>3 DEF Silent, Resting

LEMMA GivenUpIsSafe ==
    ASSUME NEW s \in State, Scanning(s), FinishExtension([s EXCEPT !.scan = FALSE])
    PROVE  c' \in State /\ Safe(c')
<1> DEFINE t == [s EXCEPT !.scan = FALSE]
<1>1. ScanOver(s, t)
  BY DEF ScanOver, State, SameLink, SameTurn, SameLedger
<1>2. FinishExtension(t)
  OBVIOUS
<1> HIDE DEF t
<1> QED
  BY <1>1, <1>2, ScanOverIsSafe, FinishExtensionIsSafe DEF ScanOver

ToMark(s, m) == [s EXCEPT !.unmarked = @ \cup {m}]

LEMMA ToMarkIs ==
    ASSUME NEW s \in State, NEW m \in All, NEW t, t = ToMark(s, m)
    PROVE  /\ t \in State /\ t.wire = s.wire
           /\ SameLink(s, t) /\ SameWork(s, t) /\ SameTurn(s, t)
           /\ t.count = s.count /\ t.attempted = s.attempted /\ t.open = s.open
           /\ t.entries = s.entries /\ t.unmarked = s.unmarked \cup {m}
BY DEF ToMark, State, SameLink, SameWork, SameTurn

\* The scan may ask the module m, and asks it alone.
AskedAlone(s, m, t) == Asked(s, {m}, m, t)

LEMMA MayEnterIs ==
    ASSUME NEW s \in State, Scanning(s), NEW m \in ScanMayEnter(s)
    PROVE  /\ m \in All /\ m \in 0 .. Modules /\ m \in 1 .. s.count + 1
           /\ AskedAlone(s, m, AskedToEnter(s, {m}, m))
<1>1. /\ m \in All /\ m \in 0 .. Modules /\ m \in 1 .. s.count + 1
      /\ m \notin s.attempted \cup s.unmarked /\ {m} \in SUBSET All
  BY CoordinatorAssumption DEF ScanMayEnter, All, State
<1>2. s.mode = "NONE" /\ s.link # "down"
  BY ScanningIs DEF Scanning
<1>3. s.entries[m] <= 1 /\ s.entries[m] # 1
  BY <1>1, <1>2 DEF Scanning, Safe, Lawful, EntryInvariant
<1>4. s.entries[m] \in 0 .. 2
  BY <1>1 DEF State
<1>5. s.entries[m] = 0
  BY <1>3, <1>4
<1> DEFINE ecus == {m}
           a == AskedToEnter(s, ecus, m)
<1>6. ecus \in SUBSET All /\ a = AskedToEnter(s, ecus, m)
  BY <1>1
<1> HIDE DEF ecus, a
<1>7. Asked(s, ecus, m, a)
  BY <1>1, <1>5, <1>6, AskedIs
<1> QED
  BY <1>1, <1>7 DEF AskedAlone, ecus, a

\* The scan asks the module m for its session.
LEMMA ScanEntersIsSafe ==
    ASSUME NEW s \in State, Scanning(s), NEW m \in ScanMayEnter(s),
           NEW a, AskedAlone(s, m, a), NEW b, b = ToMark(a, m),
           NEW command, command = Command("scan", m, "enter"), c' = Sent(b, command)
    PROVE  c' \in State /\ Safe(c')
<1>1. m \in All /\ m \in 0 .. Modules /\ m \in 1 .. s.count + 1
  BY MayEnterIs
<1>2. /\ command \in Commands /\ command # Quiet /\ command.op = "scan"
      /\ command.module = m /\ command.what = "enter"
  BY <1>1, CommandTypes DEF Operations
<1>4. s.link # "down"
  BY DEF Scanning
<1>7. /\ a \in State /\ SameLink(s, a) /\ SameWork(s, a) /\ SameTurn(s, a)
      /\ a.count = s.count /\ a.attempted = s.attempted /\ a.unmarked = s.unmarked
      /\ a.open = s.open \cup {m}
  BY DEF Asked, AskedAlone
<1>8. /\ b \in State
      /\ SameLink(a, b) /\ SameWork(a, b) /\ SameTurn(a, b)
      /\ b.count = a.count /\ b.attempted = a.attempted /\ b.open = a.open
      /\ b.entries = a.entries /\ b.unmarked = a.unmarked \cup {m}
  BY <1>1, <1>7, ToMarkIs
<1>9. /\ c' \in State /\ c'.wire = command
      /\ c'.mode = b.mode /\ c'.stage = b.stage /\ c'.index = b.index
      /\ SameLink(b, c') /\ SameWork(b, c') /\ SameLedger(b, c')
  BY <1>2, <1>8, SentIs
<1>10. /\ c'.mode = s.mode /\ SameLink(s, c') /\ SameWork(s, c')
       /\ c'.count = s.count /\ c'.attempted = s.attempted
       /\ c'.unmarked = s.unmarked \cup {m} /\ c'.open = s.open \cup {m}
  BY <1>7, <1>8, <1>9 DEF SameLink, SameWork, SameTurn, SameLedger
<1>11. ASSUME NEW j \in All
       PROVE  c'.entries[j] = IF j = m THEN 1 ELSE s.entries[j]
  BY <1>8, <1>9 DEF Asked, AskedAlone, SameLedger
<1>12. /\ s.started /\ ~s.stranded /\ s.held
       /\ s.mode = "NONE" /\ s.restore = "none" /\ ~s.read
       /\ s.unmarked \subseteq 1 .. s.count + 1 /\ s.unmarked \cap (1 .. s.count) = {}
  BY ScanningIs
<1>13. LinkInvariant(c')
  BY <1>10, <1>12 DEF Scanning, Safe, Lawful, SameLink, SameWork, LinkInvariant
<1>14. CustodyInvariant(c')
  <2>1. s.scan
    BY DEF Scanning
  <2>2. c'.wire.op = "scan"
    BY <1>2, <1>9
  <2>3. /\ c'.wire.op = "scan" /\ c'.mode = "NONE" /\ c'.restore = "none" /\ ~c'.read
        /\ c'.scan /\ c'.held
    BY <1>10, <1>12, <2>1, <2>2 DEF SameLink, SameWork
  <2>4. c'.wait # NoWait => ~c'.job
    BY <1>10, <1>12 DEF Scanning, Safe, Lawful, CustodyInvariant, SameWork
  <2> QED
    BY <2>3, <2>4 DEF CustodyInvariant, Alone, Working, Handler
<1>15. EntryInvariant(c')
  <2>1. ASSUME NEW j \in All
        PROVE  /\ c'.entries[j] <= 1
               /\ c'.entries[j] = 1 =>
                    \/ j \in c'.attempted \cup c'.unmarked
                    \/ c'.mode = "TEARDOWN" \/ c'.link = "down"
    <3>1. s.entries[j] <= 1 /\ (s.entries[j] = 1 => j \in s.attempted \cup s.unmarked)
      BY <1>4, <1>12 DEF Scanning, Safe, Lawful, EntryInvariant
    <3> QED
      BY <1>10, <1>11, <3>1
  <2>2. c'.unmarked \subseteq 1 .. c'.count + 1 /\ c'.unmarked \cap (1 .. c'.count) \subseteq {m}
    BY <1>1, <1>10, <1>12
  <2>3. c'.attempted \subseteq 1 .. c'.count /\ c'.mode = "NONE"
    BY <1>10, <1>12 DEF Scanning, Safe, Lawful, EntryInvariant
  <2> QED
    BY <1>2, <1>9, <2>1, <2>2, <2>3 DEF EntryInvariant
<1>16. ExitInvariant(c')
  <2>1. s.ended # "teardown"
    BY DEF Scanning, Safe, Lawful, LinkInvariant
  <2>2. s.open \subseteq s.attempted \cup s.unmarked
    BY <1>12 DEF Scanning, Safe, Lawful, ExitInvariant
  <2> QED
    BY <1>10, <1>12, <2>1, <2>2 DEF SameLink, ExitInvariant
<1>17. UnderWay(c')
  BY <1>10, <1>12 DEF UnderWay
<1> QED
  BY <1>9, <1>13, <1>14, <1>15, <1>16, <1>17 DEF Safe, Lawful

LEMMA ScanCommandIsSafe ==
    ASSUME NEW s \in State, Scanning(s), ScanCommand(s)
    PROVE  c' \in State /\ Safe(c')
<1>1. CASE c' = Sent(s, Command("scan", 0, "none"))
  <2> DEFINE command == Command("scan", 0, "none")
  <2>1. 0 \in 0 .. Modules
    BY CoordinatorAssumption
  <2>2. /\ command \in Commands /\ command # Quiet /\ command.op = "scan"
        /\ command.what = "none"
    BY <2>1, CommandTypes DEF Operations
  <2>3. c' = Sent(s, command)
    BY <1>1
  <2> HIDE DEF command
  <2> QED
    BY <2>2, <2>3, ScanningIs, SendIsSafe DEF Scanning
<1>2. ASSUME NEW m \in ScanMayEnter(s),
             c' = Sent([AskedToEnter(s, {m}, m) EXCEPT !.unmarked = @ \cup {m}],
                       Command("scan", m, "enter"))
      PROVE  c' \in State /\ Safe(c')
  <2> DEFINE a == AskedToEnter(s, {m}, m)
             b == ToMark(a, m)
             command == Command("scan", m, "enter")
  <2>1. c' = Sent(b, command)
    BY <1>2 DEF ToMark
  <2>2. AskedAlone(s, m, a) /\ b = ToMark(a, m) /\ command = Command("scan", m, "enter")
    BY <1>2, MayEnterIs
  <2> HIDE DEF a, b, command
  <2> QED
    BY <2>1, <2>2, ScanEntersIsSafe
<1>3. CASE FinishExtension([s EXCEPT !.scan = FALSE])
  BY <1>3, GivenUpIsSafe
<1> QED
  BY <1>1, <1>2, <1>3 DEF ScanCommand

\* The wire is quiet again: the answer has come.
LEMMA AnsweredIs ==
    ASSUME NEW s \in State, NEW t, t = [s EXCEPT !.wire = Quiet]
    PROVE  /\ t \in State /\ t.wire = Quiet
           /\ SameLink(s, t) /\ SameWork(s, t) /\ SameTurn(s, t) /\ SameLedger(s, t)
BY CommandTypes DEF State, SameLink, SameWork, SameTurn, SameLedger

\* A scan has the answer to its command, as far as the table is concerned.
ScanAnswered(r, s) ==
    /\ s \in State /\ s.wire = Quiet
    /\ SameLink(r, s) /\ SameWork(r, s) /\ SameTurn(r, s)
    /\ s.open = r.open /\ s.entries = r.entries
    /\ r.attempted \cup r.unmarked = s.attempted \cup s.unmarked
    /\ s.attempted \subseteq 1 .. s.count
    /\ s.unmarked \subseteq 1 .. s.count + 1
    /\ s.unmarked \cap (1 .. s.count) = {}

LEMMA ScanAnsweredIsSafe ==
    ASSUME NEW r \in State, Safe(r), r.scan, r.link # "down", NEW s, ScanAnswered(r, s)
    PROVE  Scanning(s)
<1>1. /\ r.started /\ ~r.stranded /\ r.link = "starting" /\ r.mode = "NONE" /\ r.held
      /\ r.ended # "teardown"
  BY DEF Safe, Lawful, LinkInvariant, EntryInvariant, CustodyInvariant, Working
<1>2. LinkInvariant(s)
  BY <1>1 DEF Safe, Lawful, ScanAnswered, SameLink, SameWork, LinkInvariant
<1>3. CustodyInvariant(s)
  BY <1>1
  DEF Safe, Lawful, ScanAnswered, SameLink, SameWork, SameTurn, CustodyInvariant, Alone,
      Working
<1>4. EntryInvariant(s)
  <2>1. ASSUME NEW m \in All
        PROVE  s.entries[m] <= 1 /\ (s.entries[m] = 1 => m \in s.attempted \cup s.unmarked)
    BY <1>1 DEF Safe, Lawful, EntryInvariant, ScanAnswered
  <2> QED
    BY <1>1, <2>1 DEF ScanAnswered, SameLink, SameWork, SameTurn, EntryInvariant
<1>5. ExitInvariant(s)
  BY <1>1 DEF Safe, Lawful, ScanAnswered, SameLink, SameTurn, ExitInvariant
<1>6. UnderWay(s)
  BY <1>1 DEF ScanAnswered, SameTurn, UnderWay
<1> QED
  BY <1>1, <1>2, <1>3, <1>4, <1>5, <1>6
  DEF Scanning, Safe, Lawful, ScanAnswered, SameLink, SameWork

RecordedAs(s, m, t) ==
    /\ t \in State /\ t.wire = s.wire
    /\ SameLink(s, t) /\ SameWork(s, t) /\ SameTurn(s, t)
    /\ t.count = s.count /\ t.open = s.open /\ t.entries = s.entries
    /\ t.attempted = s.attempted \cup ({m} \cap s.unmarked)
    /\ t.unmarked = s.unmarked \ {m}

LEMMA RecordedIs ==
    ASSUME NEW s \in State, NEW m \in 0 .. Modules, NEW t, t = Recorded(s, m)
    PROVE  RecordedAs(s, m, t)
<1> DEFINE a == s.attempted \cup ({m} \cap s.unmarked)
           n == s.unmarked \ {m}
           u == [s EXCEPT !.attempted = a, !.unmarked = n]
<1>1. a \in SUBSET All /\ n \in SUBSET All
  BY DEF State
<1>2. t = u
  BY DEF Recorded
<1>3. a = s.attempted \cup ({m} \cap s.unmarked) /\ n = s.unmarked \ {m}
  OBVIOUS
<1> HIDE DEF a, n
<1>4. u \in State
  BY <1>1 DEF State
<1>5. /\ u.wire = s.wire /\ u.count = s.count /\ u.open = s.open /\ u.entries = s.entries
      /\ u.attempted = a /\ u.unmarked = n
  BY DEF State
<1>6. SameLink(s, u) /\ SameWork(s, u) /\ SameTurn(s, u)
  BY DEF State, SameLink, SameWork, SameTurn
<1> HIDE DEF u
<1> QED
  BY <1>2, <1>3, <1>4, <1>5, <1>6 DEF RecordedAs

Grown(s, m) == [s EXCEPT !.count = m]

LEMMA GrownIs ==
    ASSUME NEW s \in State, NEW m \in 0 .. Modules, NEW t, t = Grown(s, m)
    PROVE  /\ t \in State /\ t.wire = s.wire /\ t.count = m
           /\ SameLink(s, t) /\ SameWork(s, t) /\ SameTurn(s, t)
           /\ t.attempted = s.attempted /\ t.open = s.open /\ t.entries = s.entries
           /\ t.unmarked = s.unmarked
BY DEF Grown, State, SameLink, SameWork, SameTurn

\* A new module of the table, asked or not.
LEMMA GrownRecordedIsSafe ==
    ASSUME NEW r \in State, Safe(r), r.scan, r.link # "down",
           NEW s \in State, s.wire = Quiet,
           SameLink(r, s), SameWork(r, s), SameTurn(r, s), SameLedger(r, s),
           s.attempted \subseteq 1 .. s.count, s.unmarked \subseteq 1 .. s.count + 1,
           s.unmarked \cap (1 .. s.count) = {},
           NEW m \in 0 .. Modules, m = s.count + 1,
           NEW t, t = Recorded(Grown(s, m), m)
    PROVE  t \in State /\ Scanning(t)
<1> DEFINE g == Grown(s, m)
<1>1. g = Grown(s, m) /\ t = Recorded(g, m)
  OBVIOUS
<1> HIDE DEF g
<1>2. /\ g \in State /\ g.wire = s.wire /\ g.count = m
      /\ SameLink(s, g) /\ SameWork(s, g) /\ SameTurn(s, g)
      /\ g.attempted = s.attempted /\ g.open = s.open /\ g.entries = s.entries
      /\ g.unmarked = s.unmarked
  BY <1>1, GrownIs
<1>3. RecordedAs(g, m, t)
  BY <1>1, <1>2, RecordedIs
<1>4. s.count \in 0 .. Modules
  BY DEF State
<1>5. ASSUME NEW j \in s.unmarked
      PROVE  j = m
  <2>1. j \in 1 .. s.count + 1 /\ j \notin 1 .. s.count
    BY <1>5
  <2> QED
    BY <1>4, <2>1
<1>6. /\ t.attempted \subseteq 1 .. t.count /\ t.unmarked = {}
      /\ s.attempted \cup s.unmarked = t.attempted \cup t.unmarked
  <2>1. 1 .. s.count \subseteq 1 .. m /\ m \in 1 .. m
    BY <1>4
  <2> QED
    BY <1>2, <1>3, <1>5, <2>1 DEF RecordedAs
<1>7. ScanAnswered(r, t)
  <2>1. /\ t \in State /\ t.wire = Quiet
        /\ SameLink(r, t) /\ SameWork(r, t) /\ SameTurn(r, t)
    BY <1>2, <1>3 DEF RecordedAs, SameLink, SameWork, SameTurn
  <2>2. /\ t.open = r.open /\ t.entries = r.entries
        /\ r.attempted = s.attempted /\ r.unmarked = s.unmarked
    BY <1>2, <1>3 DEF RecordedAs, SameLedger
  <2> QED
    BY <1>6, <2>1, <2>2 DEF ScanAnswered
<1> QED
  BY <1>3, <1>7, ScanAnsweredIsSafe DEF RecordedAs

LEMMA AcceptedIsSafe ==
    ASSUME NEW r \in State, Safe(r), r.scan, r.link # "down",
           NEW s, s = [r EXCEPT !.wire = Quiet], NEW t \in Accepted(s, r.wire)
    PROVE  t \in State /\ Scanning(t)
<1>1. /\ s \in State /\ s.wire = Quiet
      /\ SameLink(r, s) /\ SameWork(r, s) /\ SameTurn(r, s) /\ SameLedger(r, s)
  BY AnsweredIs
<1>2. /\ s.attempted \subseteq 1 .. s.count
      /\ s.unmarked \subseteq 1 .. s.count + 1
      /\ s.unmarked \cap (1 .. s.count) \subseteq
           IF r.wire.what = "enter" THEN {r.wire.module} ELSE {}
  BY <1>1 DEF Safe, Lawful, EntryInvariant, SameLedger
<1>3. s.count \in 0 .. Modules /\ r.wire.module \in 0 .. Modules
  BY <1>1 DEF State, Commands
<1>4. CASE r.wire.what = "enter" /\ r.wire.module <= s.count
  <2> DEFINE m == r.wire.module
  <2>1. t = Recorded(s, m) /\ m \in 0 .. Modules
    BY <1>3, <1>4 DEF Accepted
  <2>2. m \in s.unmarked => m \in 1 .. s.count
    BY <1>2, <1>3, <1>4
  <2>3. s.unmarked \cap (1 .. s.count) \subseteq {m}
    BY <1>2, <1>4
  <2> HIDE DEF m
  <2>4. RecordedAs(s, m, t)
    BY <1>1, <2>1, RecordedIs
  <2>5. /\ t.attempted \subseteq 1 .. t.count
        /\ t.unmarked \subseteq 1 .. t.count + 1 /\ t.unmarked \cap (1 .. t.count) = {}
        /\ s.attempted \cup s.unmarked = t.attempted \cup t.unmarked
    BY <1>2, <2>2, <2>3, <2>4 DEF RecordedAs
  <2>6. ScanAnswered(r, t)
    BY <1>1, <2>4, <2>5 DEF RecordedAs, ScanAnswered, SameLink, SameWork, SameTurn, SameLedger
  <2> QED
    BY <2>4, <2>6, ScanAnsweredIsSafe DEF RecordedAs
<1>5. CASE t = s /\ (r.wire.what = "enter" => ~(r.wire.module <= s.count))
  <2>1. t.unmarked \cap (1 .. t.count) = {}
    BY <1>2, <1>3, <1>5
  <2>2. ScanAnswered(r, t)
    BY <1>1, <1>2, <1>5, <2>1 DEF ScanAnswered, SameLedger
  <2> QED
    BY <1>1, <1>5, <2>2, ScanAnsweredIsSafe
<1>6. ASSUME r.wire.what # "enter", NEW m \in {s.count + 1} \cap (1 .. Modules),
             t = Recorded([s EXCEPT !.count = m], m)
      PROVE  t \in State /\ Scanning(t)
  <2>1. m \in 0 .. Modules /\ m = s.count + 1 /\ s.unmarked \cap (1 .. s.count) = {}
    BY <1>2, <1>6
  <2>2. t = Recorded(Grown(s, m), m)
    BY <1>6 DEF Grown
  <2> QED
    BY <1>1, <1>2, <2>1, <2>2, GrownRecordedIsSafe DEF SameLedger
<1> QED
  BY <1>4, <1>5, <1>6 DEF Accepted

LEMMA FinishedScanIs ==
    ASSUME NEW s \in State
    PROVE  ScanOver(s, [s EXCEPT !.scan = FALSE, !.cached = FALSE])
BY DEF ScanOver, State, SameLink, SameTurn, SameLedger

LEMMA AnswerScanIsSafe ==
    ASSUME NEW r \in State, Safe(r), r.scan, r.link # "down",
           NEW s, s = [r EXCEPT !.wire = Quiet], AnswerScan(s, r.wire)
    PROVE  c' \in State /\ Safe(c')
<1>1. PICK a \in Accepted(s, r.wire) :
        \/ FinishCurrentWork(a)
        \/ ScanCommand(a)
        \/ FinishExtension([a EXCEPT !.scan = FALSE])
        \/ Establish([a EXCEPT !.scan = FALSE, !.cached = FALSE])
  BY DEF AnswerScan
<1>2. a \in State /\ Scanning(a)
  BY AcceptedIsSafe
<1>3. CASE FinishCurrentWork(a)
  BY <1>2, <1>3, ScanningIs, FinishCurrentWorkIsSafe DEF Scanning
<1>4. CASE ScanCommand(a)
  BY <1>2, <1>4, ScanCommandIsSafe
<1>5. CASE FinishExtension([a EXCEPT !.scan = FALSE])
  BY <1>2, <1>5, GivenUpIsSafe
<1>6. CASE Establish([a EXCEPT !.scan = FALSE, !.cached = FALSE])
  <2> DEFINE t == [a EXCEPT !.scan = FALSE, !.cached = FALSE]
  <2>1. Establish(t)
    BY <1>6
  <2>2. ScanOver(a, t)
    BY <1>2, FinishedScanIs
  <2> HIDE DEF t
  <2>3. Safe(t) /\ ~Working(t) /\ t.held /\ t.wire = Quiet /\ t \in State
    BY <1>2, <2>2, ScanOverIsSafe DEF ScanOver
  <2>4. t.started /\ t.link # "down" /\ t.unmarked \cap (1 .. t.count) = {}
    BY <1>2, <2>2, ScanningIs DEF Scanning, ScanOver, SameLink, SameLedger
  <2> QED
    BY <2>1, <2>3, <2>4, EstablishIsSafe
<1> QED
  BY <1>1, <1>3, <1>4, <1>5, <1>6

-----------------------------------------------------------------------------
(* The actions *)

LEMMA RestoreOverIs ==
    ASSUME NEW s \in State, NEW t, t = [s EXCEPT !.restore = "none", !.job = FALSE]
    PROVE  /\ t \in State /\ t.wire = s.wire
           /\ SameLink(s, t) /\ SameTurn(s, t) /\ SameLedger(s, t)
           /\ t.scan = s.scan /\ t.read = s.read /\ t.wait = s.wait
           /\ t.restore = "none" /\ t.job = FALSE
BY DEF State, SameLink, SameTurn, SameLedger

LEMMA AnswerRestoreIsSafe ==
    ASSUME NEW s \in State, Safe(s), Silent(s), s.started, s.link # "down",
           s.mode = "NONE", ~s.stranded => ~s.read /\ ~s.scan, AnswerRestore(s)
    PROVE  c' \in State /\ Safe(c')
<1> DEFINE t == [s EXCEPT !.restore = "none", !.job = FALSE]
           u == Released(t)
<1>1. 0 \in 0 .. Attempts
  BY CoordinatorAssumption
<1>2. \/ c' = RestoredOrFailed(t)
      \/ /\ CanWrite(s)
         /\ c' = Sent([s EXCEPT !.restore = "filter"], Command("restore", 0, "none"))
      \/ c' = Ended(t, "otherwise")
      \/ TryTeardown(u, 0)
      \/ c' = UpdateJob(u)
  BY DEF AnswerRestore
<1>3. u = Released(t)
  OBVIOUS
<1>4. /\ t \in State /\ t.wire = s.wire
      /\ SameLink(s, t) /\ SameTurn(s, t) /\ SameLedger(s, t)
      /\ t.scan = s.scan /\ t.read = s.read /\ t.wait = s.wait
      /\ t.restore = "none" /\ t.job = FALSE
  BY RestoreOverIs
<1> HIDE DEF t, u
<1>5. Dropped(s, t) /\ Silent(t) /\ Resting(t)
  BY <1>4 DEF SameLink, SameTurn, Dropped, Silent, Resting, Working
<1>6. Safe(t)
  BY <1>5, DroppedIsSafe DEF Silent
<1>7. u \in State /\ Safe(u)
  BY <1>3, <1>4, <1>5, <1>6, ReleasedIsSafe
<1>8. CASE c' = RestoredOrFailed(t)
  BY <1>4, <1>5, <1>6, <1>8, RestoredOrFailedIsSafe
<1>9. CASE /\ CanWrite(s)
           /\ c' = Sent([s EXCEPT !.restore = "filter"], Command("restore", 0, "none"))
  <2>1. s.wait # NoWait => ~s.job \/ s.stranded
    BY DEF Safe, Lawful, CustodyInvariant
  <2> QED
    BY <1>9, <2>1, RestoreCommandIsSafe
<1>10. CASE c' = Ended(t, "otherwise")
  BY <1>4, <1>6, <1>10, EndedIsSafe
<1>11. CASE TryTeardown(u, 0)
  BY <1>1, <1>7, <1>11, TryTeardownIsSafe
<1>12. CASE c' = UpdateJob(u)
  BY <1>7, <1>12, UpdateJobIsSafe
<1> QED
  BY <1>2, <1>8, <1>9, <1>10, <1>11, <1>12

LEMMA AnsweredIsSafe ==
    ASSUME NEW r \in State, Safe(r), r.link # "down", ~r.scan,
           NEW s, s = [r EXCEPT !.wire = Quiet]
    PROVE  Safe(s)
<1>1. /\ s \in State /\ s.wire = Quiet
      /\ SameLink(r, s) /\ SameWork(r, s) /\ SameTurn(r, s) /\ SameLedger(r, s)
  BY AnsweredIs
<1>2. LinkInvariant(s)
  BY <1>1 DEF Safe, Lawful, SameLink, SameWork, SameLedger, LinkInvariant
<1>3. CustodyInvariant(s)
  BY <1>1
  DEF Safe, Lawful, SameLink, SameWork, SameTurn, CustodyInvariant, Alone, Working
<1>4. EntryInvariant(s)
  BY <1>1 DEF Safe, Lawful, SameLink, SameWork, SameTurn, SameLedger, EntryInvariant
<1>5. ExitInvariant(s)
  BY <1>1 DEF Safe, Lawful, SameLink, SameTurn, SameLedger, ExitInvariant
<1>6. UnderWay(s)
  BY <1>1 DEF Safe, SameLink, SameTurn, SameLedger, UnderWay
<1> QED
  BY <1>2, <1>3, <1>4, <1>5, <1>6 DEF Safe, Lawful

\* Whose turn an answer makes it.
LEMMA HandlerIs ==
    ASSUME NEW s
    PROVE  /\ Handler(s) = "session" => s.mode # "NONE"
           /\ Handler(s) = "restore" => s.mode = "NONE" /\ s.restore # "none"
           /\ Handler(s) = "read" => s.mode = "NONE" /\ s.restore = "none" /\ s.read
           /\ Handler(s) = "scan" =>
                s.mode = "NONE" /\ s.restore = "none" /\ ~s.read /\ s.scan
           /\ Handler(s) = "none" => ~s.scan
BY DEF Handler

LEMMA AnswerIsSafe ==
    ASSUME c \in State, Safe(c), Answer
    PROVE  c' \in State /\ Safe(c')
<1> DEFINE s == [c EXCEPT !.wire = Quiet]
<1>1. c.wire # Quiet
  BY DEF Answer
<1>2. \/ Handler(s) = "session" /\ AnswerSession(s)
      \/ Handler(s) = "restore" /\ AnswerRestore(s)
      \/ Handler(s) = "read" /\ (ReadCommand(s) \/ FinishRead(s))
      \/ Handler(s) = "scan" /\ AnswerScan(s, c.wire)
      \/ Handler(s) = "none" /\ c' = Ended(s, "otherwise")
  BY DEF Answer
<1>3. s = [c EXCEPT !.wire = Quiet]
  OBVIOUS
<1> HIDE DEF s
<1>4. /\ s \in State /\ s.wire = Quiet
      /\ SameLink(c, s) /\ SameWork(c, s) /\ SameTurn(c, s) /\ SameLedger(c, s)
  BY <1>3, AnsweredIs
<1>5. /\ c.link # "down" /\ c.started
      /\ c.scan => ~c.stranded
  BY <1>1 DEF Safe, Lawful, LinkInvariant
<1>6. ~c.stranded =>
        /\ Alone(c) /\ Handler(c) = c.wire.op
        /\ c.wire.op = "session" /\ c.stage # "PROTOCOL" => c.aim = c.index
  BY <1>1, <1>5 DEF Safe, Lawful, CustodyInvariant
<1>7. s.link # "down" /\ s.started /\ Silent(s) /\ Handler(s) = Handler(c)
  BY <1>4, <1>5 DEF SameLink, SameWork, SameTurn, Silent, Handler
<1>8. ~c.scan => Safe(s)
  BY <1>3, <1>5, AnsweredIsSafe
<1>9. CASE Handler(s) = "session" /\ AnswerSession(s)
  <2>1. c.mode # "NONE" /\ ~c.scan
    BY <1>5, <1>6, <1>7, <1>9, HandlerIs DEF Alone
  <2>2. Safe(s) /\ InSession(s)
    BY <1>4, <1>7, <1>8, <2>1 DEF InSession, Safe, SameTurn
  <2>3. ~s.stranded /\ s.stage # "PROTOCOL" => s.aim = s.index
    BY <1>4, <1>6, <1>7, <1>9 DEF SameLink, SameTurn
  <2>4. ~s.stranded /\ s.mode = "TEARDOWN" /\ s.stage = "CONTROL" => s.index \notin s.open
    BY <1>1, <1>4, <1>5 DEF Safe, Lawful, ExitInvariant, SameLink, SameTurn, SameLedger
  <2> QED
    BY <1>4, <1>9, <2>2, <2>3, <2>4, AnswerSessionIsSafe
<1>10. CASE Handler(s) = "restore" /\ AnswerRestore(s)
  <2>1. s.mode = "NONE" /\ ~c.scan /\ (~s.stranded => ~s.read /\ ~s.scan)
    BY <1>4, <1>5, <1>6, <1>10, HandlerIs DEF Alone, SameLink, SameWork, SameTurn
  <2> QED
    BY <1>4, <1>7, <1>8, <1>10, <2>1, AnswerRestoreIsSafe
<1>11. CASE Handler(s) = "read" /\ (ReadCommand(s) \/ FinishRead(s))
  <2>1. Reading(s) /\ ~c.scan
    BY <1>4, <1>5, <1>6, <1>11, HandlerIs DEF Alone, Reading, SameLink, SameWork, SameTurn
  <2> QED
    BY <1>4, <1>7, <1>8, <1>11, <2>1, ReadCommandIsSafe, FinishReadIsSafe
<1>12. CASE Handler(s) = "scan" /\ AnswerScan(s, c.wire)
  <2>1. c.scan
    BY <1>4, <1>12, HandlerIs DEF SameWork
  <2> QED
    BY <1>3, <1>5, <1>12, <2>1, AnswerScanIsSafe
<1>13. CASE Handler(s) = "none" /\ c' = Ended(s, "otherwise")
  <2>1. ~c.scan
    BY <1>4, <1>13, HandlerIs DEF SameWork
  <2> QED
    BY <1>4, <1>8, <1>13, <2>1, EndedIsSafe
<1> QED
  BY <1>2, <1>9, <1>10, <1>11, <1>12, <1>13

\* Discovery begins, over n modules of a saved profile or none.
Discovering(s, saved, n) ==
    [s EXCEPT !.held = TRUE, !.started = TRUE, !.scan = TRUE, !.cached = saved,
              !.count = n]

DiscoveringAs(s, n, t) ==
    /\ t \in State /\ t.wire = s.wire /\ SameTurn(s, t)
    /\ t.link = s.link /\ t.selected = s.selected /\ t.ended = s.ended
    /\ t.stranded = s.stranded
    /\ t.read = s.read /\ t.restore = s.restore /\ t.job = s.job
    /\ t.wait = s.wait
    /\ t.attempted = s.attempted /\ t.open = s.open /\ t.entries = s.entries
    /\ t.unmarked = s.unmarked
    /\ t.held = TRUE /\ t.started = TRUE /\ t.scan = TRUE /\ t.count = n

LEMMA DiscoveringIs ==
    ASSUME NEW s \in State, NEW saved \in BOOLEAN, NEW n \in 0 .. Modules,
           NEW t, t = Discovering(s, saved, n)
    PROVE  DiscoveringAs(s, n, t)
<1> DEFINE u == Discovering(s, saved, n)
<1>1. u \in State
  BY DEF State, Discovering
<1>2. /\ u.wire = s.wire /\ SameTurn(s, u)
      /\ u.link = s.link /\ u.selected = s.selected /\ u.ended = s.ended
      /\ u.stranded = s.stranded
      /\ u.read = s.read /\ u.restore = s.restore /\ u.job = s.job
      /\ u.wait = s.wait
  BY DEF State, Discovering, SameTurn
<1>3. /\ u.attempted = s.attempted /\ u.open = s.open /\ u.entries = s.entries
      /\ u.unmarked = s.unmarked
      /\ u.held = TRUE /\ u.started = TRUE /\ u.scan = TRUE /\ u.count = n
  BY DEF State, Discovering
<1> QED
  BY <1>1, <1>2, <1>3 DEF DiscoveringAs

LEMMA DiscoveringIsSafe ==
    ASSUME NEW s \in State, Safe(s), ~s.started, s.link = "starting", ~s.held,
           NEW saved \in BOOLEAN, NEW n \in 0 .. Modules,
           NEW t, t = Discovering(s, saved, n)
    PROVE  t \in State /\ Scanning(t)
<1>1. /\ ~s.stranded /\ s.wire = Quiet /\ s.count = 0 /\ ~s.read
      /\ s.restore = "none" /\ s.wait = NoWait /\ s.unmarked = {} /\ ~s.job
      /\ s.ended # "teardown"
  BY DEF Safe, Lawful, LinkInvariant
<1>2. s.mode = "NONE"
  BY <1>1 DEF Safe, Lawful, CustodyInvariant, Working
<1>3. s.attempted = {}
  BY <1>1 DEF Safe, Lawful, EntryInvariant
<1>0. DiscoveringAs(s, n, t)
  BY DiscoveringIs
<1>4. /\ t \in State /\ t.wire = s.wire /\ SameTurn(s, t)
      /\ t.link = s.link /\ t.selected = s.selected /\ t.ended = s.ended
      /\ t.stranded = s.stranded
      /\ t.read = s.read /\ t.restore = s.restore /\ t.job = s.job
      /\ t.wait = s.wait
      /\ t.attempted = s.attempted /\ t.open = s.open /\ t.entries = s.entries
      /\ t.unmarked = s.unmarked
      /\ t.held = TRUE /\ t.started = TRUE /\ t.scan = TRUE /\ t.count = n
  BY <1>0 DEF DiscoveringAs
<1>5. LinkInvariant(t)
  BY <1>1, <1>4 DEF Safe, Lawful, LinkInvariant
<1>6. CustodyInvariant(t)
  BY <1>1, <1>2, <1>4 DEF SameTurn, CustodyInvariant, Alone, Working
<1>7. EntryInvariant(t)
  BY <1>1, <1>2, <1>3, <1>4 DEF Safe, Lawful, SameTurn, EntryInvariant
<1>8. ExitInvariant(t)
  BY <1>1, <1>2, <1>4 DEF Safe, Lawful, SameTurn, ExitInvariant
<1>9. UnderWay(t)
  BY <1>2, <1>4 DEF SameTurn, UnderWay
<1> QED
  BY <1>1, <1>4, <1>5, <1>6, <1>7, <1>8, <1>9 DEF Scanning, Safe, Lawful

LEMMA BeginExtensionIsSafe ==
    ASSUME c \in State, Safe(c), BeginExtension
    PROVE  c' \in State /\ Safe(c')
<1>1. CASE UNCHANGED c
  BY <1>1
<1>2. ASSUME ~c.started, NEW saved \in BOOLEAN,
             ScanCommand([c EXCEPT !.held = TRUE, !.started = TRUE,
                                   !.scan = TRUE, !.cached = saved,
                                   !.count = IF saved THEN Modules ELSE 0])
      PROVE  c' \in State /\ Safe(c')
  <2> DEFINE n == IF saved THEN Modules ELSE 0
             s == Discovering(c, saved, n)
  <2>1. n \in 0 .. Modules /\ s = Discovering(c, saved, n)
    BY CoordinatorAssumption
  <2>2. ScanCommand(s)
    BY <1>2 DEF Discovering
  <2> HIDE DEF n, s
  <2>3. c.link = "starting" /\ ~c.held
    BY DEF BeginExtension
  <2>4. s \in State /\ Scanning(s)
    BY <1>2, <2>1, <2>3, DiscoveringIsSafe
  <2> QED
    BY <2>2, <2>4, ScanCommandIsSafe
<1> QED
  BY <1>1, <1>2 DEF BeginExtension

LEMMA BecomeReadyIsSafe ==
    ASSUME c \in State, Safe(c), BecomeReady
    PROVE  c' \in State /\ Safe(c')
<1> DEFINE t == [c EXCEPT !.link = "live"]
<1>1. c.link = "starting" /\ ~c.held /\ c' = UpdateJob(t)
  BY DEF BecomeReady
<1>2. /\ t \in State /\ t.wire = c.wire /\ t.link = "live" /\ t.held = c.held
      /\ t.started = c.started /\ t.selected = c.selected /\ t.ended = c.ended
      /\ t.stranded = c.stranded
      /\ SameWork(c, t) /\ SameTurn(c, t) /\ SameLedger(c, t)
  BY DEF State, SameWork, SameTurn, SameLedger
<1> HIDE DEF t
<1>3. ~c.scan
  BY <1>1 DEF Safe, Lawful, LinkInvariant, CustodyInvariant, Working
<1>4. LinkInvariant(t)
  BY <1>1, <1>2, <1>3 DEF Safe, Lawful, SameWork, SameLedger, LinkInvariant
<1>5. CustodyInvariant(t)
  BY <1>1, <1>2
  DEF Safe, Lawful, SameWork, SameTurn, CustodyInvariant, Alone, Working, Handler
<1>6. EntryInvariant(t)
  BY <1>1, <1>2 DEF Safe, Lawful, SameWork, SameTurn, SameLedger, EntryInvariant
<1>7. ExitInvariant(t)
  BY <1>1, <1>2 DEF Safe, Lawful, SameTurn, SameLedger, ExitInvariant
<1>8. UnderWay(t)
  BY <1>1, <1>2 DEF Safe, SameTurn, SameLedger, UnderWay
<1> QED
  BY <1>1, <1>2, <1>4, <1>5, <1>6, <1>7, <1>8, UpdateJobIsSafe DEF Safe, Lawful

LEMMA JobOverIs ==
    ASSUME NEW s \in State, NEW t, t = [s EXCEPT !.job = FALSE]
    PROVE  /\ t \in State /\ t.wire = s.wire
           /\ SameLink(s, t) /\ SameTurn(s, t) /\ SameLedger(s, t)
           /\ t.scan = s.scan /\ t.read = s.read /\ t.restore = s.restore
           /\ t.wait = s.wait /\ t.job = FALSE
BY DEF State, SameLink, SameTurn, SameLedger

LEMMA JobRefusedIs ==
    ASSUME NEW s \in State,  NEW t, t = [s EXCEPT !.job = FALSE, !.polling = "off"]
    PROVE  /\ t \in State /\ t.wire = s.wire
           /\ SameLink(s, t) /\ SameTurn(s, t) /\ SameLedger(s, t)
           /\ t.scan = s.scan /\ t.read = s.read /\ t.restore = s.restore
           /\ t.wait = s.wait /\ t.job = FALSE
BY DEF State, SameLink, SameTurn, SameLedger

JobOf(s, m) ==
    [s EXCEPT !.job = TRUE, !.module = m, !.live = TRUE, !.wait = NoWait]

LEMMA JobIs ==
    ASSUME NEW s \in State, NEW m \in 0 .. Modules, NEW t, t = JobOf(s, m)
    PROVE  /\ t \in State /\ t.wire = s.wire
           /\ SameLink(s, t) /\ SameTurn(s, t) /\ SameLedger(s, t)
           /\ t.scan = s.scan /\ t.read = s.read /\ t.restore = s.restore
           /\ t.wait = NoWait /\ t.job /\ t.module = m
<1> DEFINE u == JobOf(s, m)
<1>1. u \in State
  BY CommandTypes DEF JobOf, State
<1>2. SameLink(s, u) /\ SameTurn(s, u) /\ SameLedger(s, u)
  BY DEF JobOf, State, SameLink, SameTurn, SameLedger
<1>3. /\ u.wire = s.wire /\ u.scan = s.scan /\ u.read = s.read /\ u.restore = s.restore
      /\ u.wait = NoWait /\ u.job /\ u.module = m
  BY DEF JobOf, State
<1> QED
  BY <1>1, <1>2, <1>3

LEMMA BeginJobIsSafe ==
    ASSUME c \in State, Safe(c), BeginJob
    PROVE  c' \in State /\ Safe(c')
<1> DEFINE s == [c EXCEPT !.held = TRUE]
           r == Released(s)
           o == [r EXCEPT !.job = FALSE]
           f == [r EXCEPT !.job = FALSE, !.polling = "off"]
<1>1. CanLend(c)
  BY DEF BeginJob
<1>2. \/ TryTeardown(o, 0)
      \/ c' = o
      \/ c' = f
      \/ \E m \in s.selected \cap (1 .. s.count) :
           TryRead([s EXCEPT !.job = TRUE, !.module = m, !.live = TRUE, !.wait = NoWait], 0)
  BY DEF BeginJob
<1>3. /\ s \in State /\ Safe(s) /\ s.held /\ s.link = "live" /\ s.wire = Quiet
      /\ ~s.stranded => ~Working(s)
  BY <1>1, LentIsSafe
<1>4. r = Released(s) /\ o = [r EXCEPT !.job = FALSE]
      /\ f = [r EXCEPT !.job = FALSE, !.polling = "off"]
  OBVIOUS
<1> HIDE DEF s, r, o, f
<1>5. r \in State /\ Safe(r) /\ Silent(r)
  <2>1. r.wire = s.wire
    BY <1>3, <1>4 DEF Released, State
  <2> QED
    BY <1>3, <1>4, <2>1, ReleasedIsSafe DEF Silent, Resting
<1>6. ASSUME NEW t \in {o, f}
      PROVE  t \in State /\ Safe(t)
  <2>1. /\ t \in State /\ t.wire = r.wire
        /\ SameLink(r, t) /\ SameTurn(r, t) /\ SameLedger(r, t)
        /\ t.scan = r.scan /\ t.read = r.read /\ t.restore = r.restore
        /\ t.wait = r.wait /\ t.job = FALSE
    <3>1. CASE t = o
      BY <1>4, <1>5, <3>1, JobOverIs
    <3>2. CASE t = f
      BY <1>4, <1>5, <3>2, JobRefusedIs
    <3> QED
      BY <1>6, <3>1, <3>2
  <2>2. Dropped(r, t)
    BY <2>1 DEF Dropped, SameLink, SameTurn
  <2> QED
    BY <1>5, <2>1, <2>2, DroppedIsSafe DEF Silent
<1>7. CASE TryTeardown(o, 0)
  <2>1. 0 \in 0 .. Attempts
    BY CoordinatorAssumption
  <2> QED
    BY <1>6, <1>7, <2>1, TryTeardownIsSafe
<1>8. CASE c' = o \/ c' = f
  BY <1>6, <1>8
<1>9. ASSUME NEW m \in s.selected \cap (1 .. s.count),
             TryRead([s EXCEPT !.job = TRUE, !.module = m, !.live = TRUE,
                               !.wait = NoWait], 0)
      PROVE  c' \in State /\ Safe(c')
  <2> DEFINE t == JobOf(s, m)
  <2>1. m \in 0 .. Modules /\ s.count # 0
    BY <1>3, CoordinatorAssumption DEF State
  <2>2. s.started /\ m \in Documented
    BY <1>3, <1>9, <2>1 DEF Safe, Lawful, LinkInvariant
  <2>3. /\ t \in State /\ t.wire = s.wire
        /\ SameLink(s, t) /\ SameTurn(s, t) /\ SameLedger(s, t)
        /\ t.scan = s.scan /\ t.read = s.read /\ t.restore = s.restore
        /\ t.wait = NoWait /\ t.job /\ t.module = m
    BY <1>3, <2>1, JobIs
  <2>4. TryRead(t, 0)
    BY <1>9 DEF JobOf
  <2> HIDE DEF t
  <2>5. ~s.stranded => ~Working(t)
    BY <1>3, <2>3 DEF SameTurn, Working
  <2>6. OwnJob(t)
    BY <1>3, <2>2, <2>3, <2>5 DEF OwnJob, SameLink
  <2>7. Safe(t)
    <3>1. ~s.stranded => Alone(t) /\ t.wait = NoWait
      BY <2>3, <2>5 DEF Alone, Working
    <3>2. Silent(s) /\ t.started /\ (t.scan => s.scan)
      BY <1>3, <2>2, <2>3 DEF Silent, SameLink
    <3> QED
      BY <1>3, <2>3, <2>5, <3>1, <3>2, WorkIsSafe
  <2>8. 0 \in 0 .. ReadAttempts /\ t.started /\ t.link # "down"
    BY <1>3, <2>2, <2>3, CoordinatorAssumption DEF SameLink
  <2> QED
    BY <2>3, <2>4, <2>6, <2>7, <2>8, TryReadIsSafe
<1> QED
  BY <1>2, <1>7, <1>8, <1>9

\* What the failure of the command on the wire changes.
ClearedAs(s, t) ==
    /\ t \in State /\ t.wire = s.wire /\ SameLink(s, t) /\ SameTurn(s, t) /\ SameLedger(s, t)
    /\ t.read = FALSE
    /\ s.read => /\ t.scan = s.scan /\ t.restore = "none" /\ t.job = FALSE
                 /\ t.wait = NoWait
    /\ ~s.read => /\ t.scan = FALSE /\ t.restore = s.restore /\ t.job = s.job
                  /\ t.wait = s.wait

LEMMA ClearedIs ==
    ASSUME NEW s \in State, NEW t, t = Cleared(s)
    PROVE  ClearedAs(s, t)
<1>0. 0 \in 0 .. Modules /\ NoWait \in Waits
  BY CoordinatorAssumption, CommandTypes
<1>1. CASE s.read
  <2> DEFINE u == [s EXCEPT !.read = FALSE, !.module = 0, !.live = FALSE,
                            !.job = FALSE, !.restore = "none", !.wait = NoWait]
  <2>1. t = u
    BY <1>1 DEF Cleared
  <2>2. u \in State
    BY <1>0 DEF State
  <2>3. SameLink(s, u) /\ SameTurn(s, u) /\ SameLedger(s, u)
    BY DEF State, SameLink, SameTurn, SameLedger
  <2>4. /\ u.wire = s.wire /\ u.read = FALSE /\ u.scan = s.scan /\ u.restore = "none"
        /\ u.job = FALSE /\ u.wait = NoWait
    BY DEF State
  <2> HIDE DEF u
  <2> QED
    BY <1>1, <2>1, <2>2, <2>3, <2>4 DEF ClearedAs
<1>2. CASE ~s.read
  <2> DEFINE u == [s EXCEPT !.scan = FALSE, !.cached = FALSE]
  <2>1. t = u
    BY <1>2 DEF Cleared
  <2>2. ScanOver(s, u)
    BY FinishedScanIs
  <2>3. s.read = FALSE
    BY <1>2 DEF State
  <2> HIDE DEF u
  <2> QED
    BY <2>1, <2>2, <2>3 DEF ScanOver, ClearedAs
<1> QED
  BY <1>1, <1>2

\* The wire is taken away, with the command on it.
Withdrawn(s) == [Restored(s) EXCEPT !.wire = Quiet]

LEMMA WireWithdrawnIs ==
    ASSUME NEW s \in State, NEW t, t = Withdrawn(s)
    PROVE  /\ t \in State /\ t.wire = Quiet /\ t.held = FALSE
           /\ t.link = s.link /\ t.started = s.started /\ t.selected = s.selected
           /\ t.ended = s.ended /\ t.stranded = s.stranded
           /\ t.mode = s.mode /\ t.stage = s.stage /\ t.index = s.index
           /\ t.skipped = s.skipped
           /\ SameWork(s, t) /\ SameLedger(s, t)
<1> DEFINE u == Withdrawn(s)
<1>1. 0 \in 0 .. Modules
  BY CoordinatorAssumption
<1>2. u \in State
  BY <1>1, CommandTypes DEF Withdrawn, Restored, State
<1>3. /\ u.wire = Quiet /\ u.held = FALSE
      /\ u.link = s.link /\ u.started = s.started /\ u.selected = s.selected
      /\ u.ended = s.ended /\ u.stranded = s.stranded
  BY DEF Withdrawn, Restored, State
<1>4. /\ u.mode = s.mode /\ u.stage = s.stage /\ u.index = s.index
      /\ u.skipped = s.skipped
      /\ SameWork(s, u) /\ SameLedger(s, u)
  BY DEF Withdrawn, Restored, State, SameWork, SameLedger
<1> QED
  BY <1>2, <1>3, <1>4

\* A failure leaves nothing behind but a session or a restore.
LEMMA FailIsSafe ==
    ASSUME c \in State, Safe(c), Fail
    PROVE  c' \in State /\ Safe(c')
<1> DEFINE w == Withdrawn(c)
           s == Cleared(w)
           d == s.stranded \/ s.mode # "NONE" \/ s.restore # "none"
           t == [s EXCEPT !.stranded = d]
<1>1. c.wire # Quiet /\ TryTeardown(t, 0)
  BY DEF Fail, Withdrawn
<1>2. w = Withdrawn(c) /\ s = Cleared(w)
      /\ (d <=> (s.stranded \/ s.mode # "NONE" \/ s.restore # "none"))
  OBVIOUS
<1> HIDE DEF w, s
<1>3. /\ w \in State /\ w.wire = Quiet /\ w.held = FALSE
      /\ w.link = c.link /\ w.started = c.started /\ w.selected = c.selected
      /\ w.ended = c.ended /\ w.stranded = c.stranded
      /\ w.mode = c.mode /\ w.stage = c.stage /\ w.index = c.index
      /\ w.skipped = c.skipped
      /\ SameWork(c, w) /\ SameLedger(c, w)
  BY <1>2, WireWithdrawnIs
<1>4. ClearedAs(w, s)
  BY <1>2, <1>3, ClearedIs
<1>5. d \in BOOLEAN
  BY <1>4 DEF ClearedAs, State
<1> HIDE DEF d
<1>6. /\ t \in State /\ t.wire = s.wire /\ t.link = s.link /\ t.held = s.held
      /\ t.started = s.started /\ t.selected = s.selected /\ t.ended = s.ended
      /\ t.stranded = d
      /\ SameWork(s, t) /\ SameTurn(s, t) /\ SameLedger(s, t)
  BY <1>4, <1>5 DEF ClearedAs, State, SameWork, SameTurn, SameLedger
<1> HIDE DEF t
<1>7. /\ t.wire = Quiet /\ t.held = FALSE
      /\ t.link = c.link /\ t.started = c.started /\ t.selected = c.selected
      /\ t.ended = c.ended /\ t.stranded = d
      /\ t.mode = c.mode /\ t.stage = c.stage /\ t.index = c.index
      /\ t.skipped = c.skipped /\ SameLedger(c, t)
      /\ t.read = FALSE /\ (t.scan => c.scan /\ c.read) /\ (t.job => c.job)
      /\ t.wait \in {c.wait, NoWait} /\ t.restore \in {c.restore, "none"}
      /\ t.wait # NoWait => t.wait = c.wait /\ t.job = c.job
      /\ ~d => ~c.stranded /\ c.mode = "NONE" /\ t.restore = "none"
  BY <1>2, <1>3, <1>4, <1>6 DEF ClearedAs, SameLink, SameWork, SameTurn, SameLedger
<1>8. c.link # "down" /\ c.started /\ ~t.scan
  BY <1>1, <1>7 DEF Safe, Lawful, LinkInvariant, CustodyInvariant, Alone
<1>9. LinkInvariant(t)
  BY <1>7, <1>8 DEF Safe, Lawful, SameLedger, LinkInvariant
<1>10. CustodyInvariant(t)
  BY <1>7, <1>8 DEF Safe, Lawful, CustodyInvariant, Alone, Working
<1>11. EntryInvariant(t)
  BY <1>7, <1>8 DEF Safe, Lawful, SameLedger, EntryInvariant
<1>12. ExitInvariant(t)
  BY <1>7, <1>8 DEF Safe, Lawful, SameLedger, ExitInvariant
<1>13. UnderWay(t)
  BY <1>7 DEF Safe, SameLedger, UnderWay
<1>14. Safe(t) /\ 0 \in 0 .. Attempts
  BY <1>9, <1>10, <1>11, <1>12, <1>13, CoordinatorAssumption DEF Safe, Lawful
<1> QED
  BY <1>1, <1>6, <1>14, TryTeardownIsSafe

LEMMA LostIsSafe ==
    ASSUME c \in State, Safe(c), Lost
    PROVE  c' \in State /\ Safe(c')
BY EndedIsSafe DEF Lost

-----------------------------------------------------------------------------
(* The user and the timers *)

\* A new connection has done nothing yet.
LEMMA FreshIsSafe ==
    ASSUME NEW retries \in SUBSET (1 .. Attempts), NEW t, t = Fresh(retries)
    PROVE  t \in State /\ Safe(t)
<1>1. /\ 0 \in 0 .. Modules /\ 0 \in 0 .. Modules + 1 /\ 1 \in 1 .. Modules + 1
      /\ 0 \in 0 .. MaxReads /\ 0 \in 0 .. 2
  BY CoordinatorAssumption
<1>2. [m \in All |-> 0] \in [All -> 0 .. 2]
  BY <1>1
<1>3. t \in State
  BY <1>1, <1>2, CommandTypes DEF Fresh, State
<1>4. /\ t.link = "starting" /\ ~t.held /\ t.wire = Quiet /\ t.mode = "NONE"
      /\ t.attempted = {} /\ ~t.scan /\ ~t.read /\ ~t.job /\ t.restore = "none"
      /\ ~t.started /\ t.selected = {} /\ t.wait = NoWait /\ t.open = {}
      /\ t.unmarked = {} /\ t.ended = "not" /\ ~t.stranded /\ t.count = 0
  BY DEF Fresh
<1>5. \A m \in All : t.entries[m] = 0
  BY DEF Fresh
<1>6. LinkInvariant(t)
  BY <1>4 DEF LinkInvariant
<1>7. CustodyInvariant(t)
  BY <1>4 DEF CustodyInvariant, Alone, Working
<1>8. EntryInvariant(t)
  BY <1>4, <1>5 DEF EntryInvariant
<1>9. ExitInvariant(t)
  BY <1>4 DEF ExitInvariant
<1>10. UnderWay(t)
  BY <1>4 DEF UnderWay
<1> QED
  BY <1>3, <1>6, <1>7, <1>8, <1>9, <1>10 DEF Safe, Lawful

LEMMA StartIsSafe ==
    ASSUME c \in State, Safe(c), Start
    PROVE  c' \in State /\ Safe(c')
<1>1. c.retries \in SUBSET (1 .. Attempts)
  BY DEF State
<1> QED
  BY <1>1, FreshIsSafe DEF Start

LEMMA DisconnectIsSafe ==
    ASSUME c \in State, Safe(c), Disconnect
    PROVE  c' \in State /\ Safe(c')
<1>1. CASE c' = [c EXCEPT !.requested = FALSE]
  <2>1. /\ c' \in State /\ c'.wire = c.wire
        /\ SameLink(c, c') /\ SameWork(c, c') /\ SameTurn(c, c') /\ SameLedger(c, c')
    BY <1>1, WithdrawnIs
  <2> QED
    BY <2>1, FramedIsSafe
<1>2. CASE TryTeardown([c EXCEPT !.requested = TRUE,
                                 !.polling = IF @ = "none" THEN @ ELSE "off"], 0)
  <2> DEFINE p == IF c.polling = "none" THEN c.polling ELSE "off"
             t == [c EXCEPT !.requested = TRUE, !.polling = p]
  <2>1. TryTeardown(t, 0)
    BY <1>2
  <2>2. p \in {"none", "on", "off"}
    OBVIOUS
  <2> HIDE DEF p
  <2>3. /\ t \in State /\ t.wire = c.wire
        /\ SameLink(c, t) /\ SameWork(c, t) /\ SameTurn(c, t) /\ SameLedger(c, t)
    BY <2>2 DEF State, SameLink, SameWork, SameTurn, SameLedger
  <2> HIDE DEF t
  <2>4. Safe(t) /\ 0 \in 0 .. Attempts
    BY <2>3, FramedIsSafe, CoordinatorAssumption
  <2> QED
    BY <2>1, <2>3, <2>4, TryTeardownIsSafe
<1> QED
  BY <1>1, <1>2 DEF Disconnect

LEMMA SelectIsSafe ==
    ASSUME c \in State, Safe(c), Select
    PROVE  c' \in State /\ Safe(c')
<1>1. PICK ms \in Selections : c' = UpdateJob([c EXCEPT !.selected = ms])
  BY DEF Select
<1> DEFINE t == [c EXCEPT !.selected = ms]
<1>2. ms \subseteq Documented /\ ms \in SUBSET All
  BY CoordinatorAssumption
<1>3. /\ t \in State /\ t.wire = c.wire /\ t.link = c.link /\ t.held = c.held
      /\ t.started = c.started /\ t.selected = ms /\ t.ended = c.ended
      /\ t.stranded = c.stranded
      /\ SameWork(c, t) /\ SameTurn(c, t) /\ SameLedger(c, t)
  BY <1>2 DEF State, SameWork, SameTurn, SameLedger
<1>4. c' = UpdateJob(t)
  BY <1>1
<1> HIDE DEF t
<1>5. LinkInvariant(t)
  BY <1>2, <1>3 DEF Safe, Lawful, SameWork, SameLedger, LinkInvariant
<1>6. CustodyInvariant(t)
  BY <1>3
  DEF Safe, Lawful, SameWork, SameTurn, CustodyInvariant, Alone, Working, Handler
<1>7. EntryInvariant(t)
  BY <1>3 DEF Safe, Lawful, SameWork, SameTurn, SameLedger, EntryInvariant
<1>8. ExitInvariant(t)
  BY <1>3 DEF Safe, Lawful, SameTurn, SameLedger, ExitInvariant
<1>9. UnderWay(t)
  BY <1>3 DEF Safe, SameTurn, SameLedger, UnderWay
<1> QED
  BY <1>3, <1>4, <1>5, <1>6, <1>7, <1>8, <1>9, UpdateJobIsSafe DEF Safe, Lawful

\* No timer of a read runs any more.
LEMMA UnwaitedIsSafe ==
    ASSUME NEW s \in State, Safe(s), NEW t \in State, t.wire = s.wire,
           SameLink(s, t), SameTurn(s, t), SameLedger(s, t), t.wait = NoWait,
           t.scan = s.scan, t.read = s.read, t.restore = s.restore, t.job = s.job
    PROVE  Safe(t)
<1>1. LinkInvariant(t)
  BY DEF Safe, Lawful, SameLink, SameLedger, LinkInvariant
<1>2. CustodyInvariant(t)
  BY DEF Safe, Lawful, SameLink, SameTurn, CustodyInvariant, Alone, Working, Handler
<1>3. EntryInvariant(t)
  BY DEF Safe, Lawful, SameLink, SameTurn, SameLedger, EntryInvariant
<1>4. ExitInvariant(t)
  BY DEF Safe, Lawful, SameLink, SameTurn, SameLedger, ExitInvariant
<1>5. UnderWay(t)
  BY DEF Safe, SameLink, SameTurn, SameLedger, UnderWay
<1> QED
  BY <1>1, <1>2, <1>3, <1>4, <1>5 DEF Safe, Lawful

\* The user asks for a read of module m.
ReadFor(s, m, late) ==
    [s EXCEPT !.late = late, !.module = m, !.live = FALSE, !.wait = NoWait]

LEMMA ReadForIs ==
    ASSUME NEW s \in State, NEW m \in 0 .. Modules, NEW late \in 0 .. MaxReads, NEW t,
           t = ReadFor(s, m, late)
    PROVE  /\ t \in State /\ t.wire = s.wire
           /\ SameLink(s, t) /\ SameTurn(s, t) /\ SameLedger(s, t)
           /\ t.scan = s.scan /\ t.read = s.read /\ t.restore = s.restore
           /\ t.job = s.job /\ t.wait = NoWait /\ ~t.live
<1> DEFINE u == ReadFor(s, m, late)
<1>1. u \in State
  BY CommandTypes DEF ReadFor, State
<1>2. SameLink(s, u) /\ SameTurn(s, u) /\ SameLedger(s, u)
  BY DEF ReadFor, State, SameLink, SameTurn, SameLedger
<1>3. /\ u.wire = s.wire /\ u.scan = s.scan /\ u.read = s.read /\ u.restore = s.restore
      /\ u.job = s.job /\ u.wait = NoWait /\ ~u.live
  BY DEF ReadFor, State
<1> QED
  BY <1>1, <1>2, <1>3

LEMMA RequestReadIsSafe ==
    ASSUME c \in State, Safe(c), RequestRead
    PROVE  c' \in State /\ Safe(c')
<1> DEFINE late == IF c.requested THEN c.late + 1 ELSE c.late
<1>1. PICK m \in 1 .. c.count :
        TryRead([c EXCEPT !.late = late, !.module = m, !.live = FALSE,
                          !.wait = NoWait], 0)
  BY DEF RequestRead
<1>2. c.link # "down" /\ (c.requested => c.late < MaxReads)
  BY DEF RequestRead
<1>3. c.late \in 0 .. MaxReads /\ c.count \in 0 .. Modules
  BY DEF State
<1>4. late \in 0 .. MaxReads
  BY <1>2, <1>3, CoordinatorAssumption
<1>5. m \in 0 .. Modules /\ c.count # 0
  BY <1>3, CoordinatorAssumption
<1>6. c.started
  BY <1>5 DEF Safe, Lawful, LinkInvariant
<1> DEFINE t == ReadFor(c, m, late)
<1>7. TryRead(t, 0)
  BY <1>1 DEF ReadFor
<1> HIDE DEF late
<1>8. /\ t \in State /\ t.wire = c.wire
      /\ SameLink(c, t) /\ SameTurn(c, t) /\ SameLedger(c, t)
      /\ t.scan = c.scan /\ t.read = c.read /\ t.restore = c.restore
      /\ t.job = c.job /\ t.wait = NoWait /\ ~t.live
  BY <1>4, <1>5, ReadForIs
<1> HIDE DEF t
<1>9. Safe(t)
  BY <1>8, UnwaitedIsSafe
<1>10. t.started /\ t.link # "down" /\ OwnJob(t) /\ 0 \in 0 .. ReadAttempts
  BY <1>2, <1>6, <1>8, CoordinatorAssumption DEF SameLink, OwnJob
<1> QED
  BY <1>7, <1>8, <1>9, <1>10, TryReadIsSafe

LEMMA ReadTimerIsSafe ==
    ASSUME c \in State, Safe(c), ReadTimer
    PROVE  c' \in State /\ Safe(c')
<1> DEFINE t == [c EXCEPT !.wait = NoWait]
<1>1. /\ c.wait # NoWait
      /\ \/ c' = t
         \/ c.link # "down" /\ TryRead(t, c.wait.attempt)
  BY DEF ReadTimer
<1>2. /\ t \in State /\ t.wire = c.wire
      /\ SameLink(c, t) /\ SameTurn(c, t) /\ SameLedger(c, t)
      /\ t.scan = c.scan /\ t.read = c.read /\ t.restore = c.restore
      /\ t.job = c.job /\ t.wait = NoWait
  BY CommandTypes DEF State, SameLink, SameTurn, SameLedger
<1> HIDE DEF t
<1>3. Safe(t)
  BY <1>2, UnwaitedIsSafe
<1>4. CASE c.link # "down" /\ TryRead(t, c.wait.attempt)
  <2>1. c.started /\ (~c.stranded => ~c.job)
    BY <1>1, <1>4 DEF Safe, Lawful, LinkInvariant, CustodyInvariant
  <2>2. t.started /\ t.link # "down" /\ OwnJob(t)
    BY <1>2, <1>4, <2>1 DEF SameLink, OwnJob
  <2>3. c.wait.attempt \in 0 .. ReadAttempts
    BY DEF State, Waits
  <2> QED
    BY <1>2, <1>3, <1>4, <2>2, <2>3, TryReadIsSafe
<1> QED
  BY <1>1, <1>2, <1>3, <1>4

LEMMA DisconnectTimerIsSafe ==
    ASSUME c \in State, Safe(c), NEW attempt \in 1 .. Attempts, DisconnectTimer(attempt)
    PROVE  c' \in State /\ Safe(c')
<1> DEFINE r == c.retries \ {attempt}
           t == [c EXCEPT !.retries = r]
<1>1. TryTeardown(t, attempt)
  BY DEF DisconnectTimer
<1>2. r \in SUBSET (1 .. Attempts)
  BY DEF State
<1> HIDE DEF r
<1>3. /\ t \in State /\ t.wire = c.wire
      /\ SameLink(c, t) /\ SameWork(c, t) /\ SameTurn(c, t) /\ SameLedger(c, t)
  BY <1>2 DEF State, SameLink, SameWork, SameTurn, SameLedger
<1> HIDE DEF t
<1>4. Safe(t) /\ attempt \in 0 .. Attempts
  BY <1>3, FramedIsSafe, CoordinatorAssumption
<1> QED
  BY <1>1, <1>3, <1>4, TryTeardownIsSafe

-----------------------------------------------------------------------------
(* The theorems *)

\* Every reachable state of the coordinator is well-typed and keeps the four
\* invariants the properties rest on: who has the wire
\* (MBLinkDiagnosticsController.m, beginManufacturerCommand and its callers),
\* and which sessions were asked for and left (connection_lifecycle.c).
THEOREM CoordinatorInvariantHolds == Spec => []InductiveInvariant
<1>1. Init => InductiveInvariant
  <2>1. {} \in SUBSET (1 .. Attempts)
    OBVIOUS
  <2> QED
    BY <2>1, FreshIsSafe DEF Init, InductiveInvariant, TypeOK
<1>2. InductiveInvariant /\ [Next]_c => InductiveInvariant'
  <2> SUFFICES ASSUME c \in State, Safe(c), [Next]_c
               PROVE  c' \in State /\ Safe(c')
    BY DEF InductiveInvariant, TypeOK
  <2>1. CASE UNCHANGED c
    BY <2>1
  <2>2. CASE BeginExtension
    BY <2>2, BeginExtensionIsSafe
  <2>3. CASE BecomeReady
    BY <2>3, BecomeReadyIsSafe
  <2>4. CASE BeginJob
    BY <2>4, BeginJobIsSafe
  <2>5. CASE Answer
    BY <2>5, AnswerIsSafe
  <2>6. CASE Fail
    BY <2>6, FailIsSafe
  <2>7. CASE Lost
    BY <2>7, LostIsSafe
  <2>8. CASE Start
    BY <2>8, StartIsSafe
  <2>9. CASE Disconnect
    BY <2>9, DisconnectIsSafe
  <2>10. CASE Select
    BY <2>10, SelectIsSafe
  <2>11. CASE RequestRead
    BY <2>11, RequestReadIsSafe
  <2>12. CASE ReadTimer
    BY <2>12, ReadTimerIsSafe
  <2>13. ASSUME NEW attempt \in 1 .. Attempts, DisconnectTimer(attempt)
         PROVE  c' \in State /\ Safe(c')
    BY <2>13, DisconnectTimerIsSafe
  <2> QED
    BY <2>1, <2>2, <2>3, <2>4, <2>5, <2>6, <2>7, <2>8, <2>9, <2>10, <2>11, <2>12,
       <2>13
    DEF Next
<1> QED
  BY <1>1, <1>2, PTL DEF Spec

\* An answer reaches the operation that sent the command, and an enter or quit
\* command goes to the ECU whose turn it is, for every vehicle and every number
\* of retries (didReceiveManufacturerResponse).
THEOREM AnswersReachTheirOperation == Spec => []AnswersGoHome
<1>1. InductiveInvariant => AnswersGoHome
  <2> SUFFICES ASSUME c \in State, Safe(c), c.wire # Quiet, ~c.stranded
               PROVE  /\ c.held
                      /\ Handler(c) = c.wire.op
                      /\ c.wire.op = "session" =>
                            /\ c.wire.module = c.index /\ c.wire.what = c.stage
                            /\ c.stage \in {"RECEIVE", "CONTROL"} => c.aim = c.index
    BY DEF InductiveInvariant, TypeOK, AnswersGoHome
  <2>1. c.held /\ c.link # "down"
    BY DEF Safe, Lawful, LinkInvariant
  <2>2. /\ Handler(c) = c.wire.op
        /\ c.wire.op = "session" =>
              /\ c.wire.module = c.index /\ c.wire.what = c.stage
              /\ c.stage # "PROTOCOL" => c.aim = c.index
    BY <2>1 DEF Safe, Lawful, CustodyInvariant
  <2> QED
    BY <2>1, <2>2
<1> QED
  BY <1>1, CoordinatorInvariantHolds, PTL

\* Each session is entered at most once per connection, and whatever was
\* entered has been told to quit when the teardown ends the connection
\* (connection_lifecycle.c, CHANGELOG.md:21), for every vehicle.
THEOREM SessionsAreAccountedFor == Spec => []SessionsAccounted
<1>1. InductiveInvariant => SessionsAccounted
  BY DEF InductiveInvariant, Safe, Lawful, EntryInvariant, ExitInvariant,
     SessionsAccounted
<1> QED
  BY <1>1, CoordinatorInvariantHolds, PTL

=============================================================================

------------------------------ MODULE RiskEngine ------------------------------
(***************************************************************************)
(* What the server derives from the events of one proctoring session       *)
(* (services/risk): signals, correlated windows, the decaying score and    *)
(* its peak, and the status of each evidence item.  All of it is computed  *)
(* when asked; only the events are stored.                                 *)
(*                                                                         *)
(* A row of the log is a record with fields type, phase, episode and at    *)
(* (recorded_at).  The clock is finer than a tick: rows of one tick keep   *)
(* the order of the log.  A score halves every tick; points are whole      *)
(* multiples of 4, so that a quarter of them is exact.                     *)
(***************************************************************************)
EXTENDS Integers, SequencesExt

CONSTANTS
    Base, PerTick, Cap,   \* RULES: points of a signal by its type, per tick, at most
    Gap,                  \* CORRELATION_WINDOW_SECONDS, in ticks
    BonusCap,             \* CORRELATION_BONUS_CAP
    Scale                 \* 2^k that keeps a score halved k times whole

\* Every signal that contributes has a rule: base points, more for the time it lasts, up to a cap;
\* an instant has its base points.  Events that only end a signal have none.
RulesFit ==
    LET signals == {"FOCUS_LOST", "FACE_NOT_DETECTED", "PASTE_ATTEMPT"}
    IN  /\ {Base, PerTick, Cap} \subseteq [signals -> {4 * n : n \in 0..(Scale \div 4)}]
        /\ \A s \in signals : Base[s] <= Cap[s]
        /\ PerTick["PASTE_ATTEMPT"] = 0
        /\ {Gap, BonusCap} \subseteq Nat

Category(type) ==
    CASE type \in {"FOCUS_LOST", "FOCUS_REGAINED"} -> "WINDOW"
      [] type = "PASTE_ATTEMPT"                    -> "INPUT"
      [] type = "FACE_NOT_DETECTED"                -> "AI_OBSERVATION"

-----------------------------------------------------------------------------
(***************************************************************************)
(* Signals (build_signals).                                                *)
(***************************************************************************)

\* _ordered, of two rows of the log.
Before(log, i, j) == log[i].at < log[j].at \/ (log[i].at = log[j].at /\ i < j)

FirstOf(log, S) == CHOOSE i \in S : \A j \in S \ {i} : Before(log, i, j)

\* A signal that began at row i and ended at one of `ends`, or is taken to last until h.
Signal(log, i, ends, h) ==
    [id |-> i, type |-> log[i].type, from |-> log[i].at,
     to |-> IF ends = {} THEN h ELSE log[FirstOf(log, ends)].at,
     resolved |-> ends # {}, kind |-> "INTERVAL"]

\* AI episodes, by id: the first start, and the first resolution after it.
EpisodeSignals(log, rows, h) ==
    LET ai       == {i \in rows : log[i].type = "FACE_NOT_DETECTED"}
        starts   == {i \in ai : log[i].phase = "started"}
        begun    == {FirstOf(log, {j \in starts : log[j].episode = log[i].episode}) : i \in starts}
        ends(i)  == {j \in ai \ starts : log[j].episode = log[i].episode /\ Before(log, i, j)}
    IN  {Signal(log, i, ends(i), h) : i \in begun}

\* PAIR_ENDS: a start while one is open is a duplicate, an end with none open is ignored.
PairSignals(log, rows, h) ==
    LET lost    == {i \in rows : log[i].type = "FOCUS_LOST"}
        back(i) == {j \in rows : log[j].type = "FOCUS_REGAINED" /\ Before(log, i, j)}
        opens   == {i \in lost : \A j \in lost : Before(log, j, i) =>
                                     \E k \in back(j) : Before(log, k, i)}
    IN  {Signal(log, i, back(i), h) : i \in opens}

InstantSignals(log, rows) ==
    {[id |-> i, type |-> log[i].type, from |-> log[i].at, to |-> log[i].at,
      resolved |-> TRUE, kind |-> "INSTANT"] : i \in {j \in rows : log[j].type = "PASTE_ATTEMPT"}}

\* analyze and build_signals look at what was recorded up to the horizon.
Signals(log, h) ==
    LET rows == {i \in DOMAIN log : log[i].at <= h}
    IN  EpisodeSignals(log, rows, h) \cup PairSignals(log, rows, h) \cup InstantSignals(log, rows)

\* _status of an evidence item.
EvidenceStatus(s, live) ==
    IF s.kind = "INSTANT" THEN "INSTANT"
    ELSE IF s.resolved THEN "RESOLVED"
    ELSE IF live THEN "ONGOING" ELSE "NO_END_RECORDED"

-----------------------------------------------------------------------------
(***************************************************************************)
(* The score (evaluate).                                                   *)
(***************************************************************************)

Lesser(a, b) == IF a < b THEN a ELSE b
Greater(a, b) == IF a < b THEN b ELSE a

Points(s) == Lesser(Cap[s.type], Base[s.type] + PerTick[s.type] * (s.to - s.from))

\* The order of signals: by start, end and id.
Earlier(s, t) ==
    \/ s.from < t.from
    \/ s.from = t.from /\ (s.to < t.to \/ (s.to = t.to /\ s.id < t.id))

\* Mutant of Stretch: the window ends where its latest member does.
LastEnd(end, s) == s.to

\* The end of a window that s joins.
Stretch(end, s) == Greater(end, s.to)

Sweep(state, s) ==
    IF state.group # {} /\ s.from - state.end <= Gap
    THEN [state EXCEPT !.group = @ \cup {s}, !.end = Stretch(@, s)]
    ELSE [closed |-> state.closed \cup {state.group}, group |-> {s}, end |-> s.to]

\* The groups the sweep of _windows makes.
Groups(signals) ==
    LET swept == FoldLeft(Sweep, [closed |-> {}, group |-> {}, end |-> 0],
                          SetToSortSeq(signals, Earlier))
    IN  (swept.closed \cup {swept.group}) \ {{}}

Correlated(group) ==
    Cardinality(group) >= 2 /\ Cardinality({Category(s.type) : s \in group}) >= 2

TotalPoints(group) == MapThenSumSet(Points, group)

Ended(group) == Max({s.to : s \in group})

\* What counts towards the score and from when: signals and the bonus of correlated windows.
Contributions(signals) ==
    {[id |-> s.id, at |-> s.to, points |-> Points(s)] : s \in signals} \cup
    {[id |-> -Min({s.id : s \in g}), at |-> Ended(g),
      points |-> Lesser(BonusCap, TotalPoints(g) \div 4)] : g \in {h \in Groups(signals) : Correlated(h)}}

ByTime(c, d) == c.at < d.at \/ (c.at = d.at /\ c.id < d.id)

Decay(score, ticks) == score \div 2^ticks

Add(run, c) ==
    LET score == Decay(run.score, c.at - run.at) + Scale * c.points
    IN  [score |-> score, at |-> c.at, peak |-> Greater(run.peak, score)]

\* One pass over the contributions: the score as of h, and its peak.
Evaluate(signals, h) ==
    LET run == FoldLeft(Add, [score |-> 0, at |-> 0, peak |-> 0],
                        SetToSortSeq(Contributions(signals), ByTime))
    IN  [current |-> Decay(run.score, h - run.at), peak |-> run.peak]

\* The contributors of an assessment: what is said of each type of signal.
Contributors(signals, h) ==
    [type \in {s.type : s \in signals} |->
        LET group == {s \in signals : s.type = type}
        IN  [occurrences |-> Cardinality(group),
             points  |-> TotalPoints(group),
             current |-> MapThenSumSet(LAMBDA s : Decay(Scale * Points(s), h - s.to), group)]]

-----------------------------------------------------------------------------
(***************************************************************************)
(* The evidence behind the score (build_evidence).                         *)
(***************************************************************************)

\* episode_of: the signals of the correlated window that s belongs to.
EpisodeOf(s, signals) ==
    {t.id : t \in UNION {g \in Groups(signals) : s \in g /\ Correlated(g)}}

\* An item's end is not told while it has none on record.
Item(s, signals, live) ==
    LET status == EvidenceStatus(s, live)
    IN  [id |-> s.id, type |-> s.type, status |-> status,
         ended |-> IF status \in {"INSTANT", "RESOLVED"} THEN {s.to} ELSE {},
         episode |-> EpisodeOf(s, signals)]

\* _episode: as open as the most open of its members.
EpisodeStatus(members) ==
    LET statuses == {i.status : i \in members}
    IN  IF "ONGOING" \in statuses THEN "ONGOING"
        ELSE IF "NO_END_RECORDED" \in statuses THEN "NO_END_RECORDED" ELSE "RESOLVED"

BuildEvidence(signals, live) ==
    LET items == {Item(s, signals, live) : s \in signals}
        members(e) == {i \in items : i.id \in e}
        named == {i.episode : i \in items} \ {{}}
    IN  [items |-> items, episodes |-> [e \in named |-> EpisodeStatus(members(e))]]

-----------------------------------------------------------------------------
(***************************************************************************)
(* What the sweep and the one pass stand for (docs/PHASE-6A-RISK-ENGINE).  *)
(***************************************************************************)

\* Two signals at most Gap apart, or overlapping.
Near(s, t) == s.from - t.to <= Gap /\ t.from - s.to <= Gap

\* No signal of S is near one outside it, and S falls into no two such parts.
IsWindow(S, signals) ==
    /\ \A s \in S, t \in signals \ S : ~Near(s, t)
    /\ \A P \in (SUBSET S) \ {{}, S} : \E s \in P, t \in S \ P : Near(s, t)

\* Every contribution, halved for each tick since it counts.
ScoreAt(signals, t) ==
    MapThenSumSet(LAMBDA c : Decay(Scale * c.points, t - c.at),
                  {c \in Contributions(signals) : c.at <= t})
=============================================================================

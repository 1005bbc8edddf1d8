------------------------------ MODULE RateLimit ------------------------------
(***************************************************************************)
(* The sliding window over tool calls, keyed by instance:tool              *)
(* (rate_limit.py).  A thread reads time.time() first and takes the        *)
(* tracker's lock later, so that it may work on a time that has passed, in *)
(* another order than it was read.  The clock may be set back by an        *)
(* operator or NTP; the history is kept on time that only moves forward.   *)
(***************************************************************************)
EXTENDS Integers, Sequences, FiniteSetsExt

CONSTANTS Keys,            \* instance:tool pairs that are called
          Health,          \* stands for the keys when health_check asks for a report
          Threads,         \* threads that call single-instance tools
          Window, MaxCalls, MaxTrackedKeys,
          MaxTime,         \* bound of the clock
          MaxStep,         \* how far, in all, the clock is set back
          MaxRecorded,     \* bound on the calls of a key in the history
          MaxRefused       \* bound on the calls of a key over its budget

ASSUME LimitAssumption ==
  /\ {Window, MaxCalls, MaxTrackedKeys} \subseteq Nat \ {0}
  /\ {MaxTime, MaxStep, MaxRecorded, MaxRefused} \subseteq Nat
  /\ Health \notin Keys

VARIABLES mode,     \* ODOO_MCP_RATE_LIMIT_MODE
          now,      \* time that passed since the start
          step,     \* by how much the wall clock was set back
          pending,  \* threads between their clock and the lock: [by, key, wall, read],
                    \* what the clock showed and when that was
          events,   \* _events: the calls counted against a key; <<>> if untracked
          totals,   \* _over_budget_totals
          admitted, \* history: when calls that were let through read the clock and
                    \* when they had the lock, in that order, since the key's count
                    \* was last dropped wholesale
          uncounted \* history: some call's own key was dropped to make room, though
                    \* another one had no later call

limitVars == <<mode, now, step, pending, events, totals, admitted, uncounted>>

Wall == now - step

Admissions == [read : Nat, at : Nat]

LimitTypeOK ==
  /\ mode \in {"off", "warn", "block"}
  /\ now \in Nat /\ step \in 0..MaxStep
  /\ events \in [Keys -> Seq(Int)] /\ totals \in [Keys -> Nat]
  /\ pending \subseteq [by : Int, key : Keys \cup {Health}, wall : Int, read : Nat]
  /\ admitted \in [Keys -> Seq(Admissions)]
  /\ uncounted \in BOOLEAN

LimitInit ==
  /\ mode \in {"off", "warn", "block"}
  /\ now = 0 /\ step = 0 /\ pending = {}
  /\ events = [k \in Keys |-> <<>>] /\ totals = [k \in Keys |-> 0]
  /\ admitted = [k \in Keys |-> <<>>] /\ uncounted = FALSE

-----------------------------------------------------------------------------
Tracked(ev) == {k \in Keys : ev[k] # <<>>}

\* now = time.time(), for a call of key k or a report: before the lock is taken.
ReadClock(by, k) ==
  /\ \A p \in pending : p.by # by
  /\ pending' = pending \cup {[by |-> by, key |-> k, wall |-> Wall, read |-> now]}
  /\ UNCHANGED <<mode, now, step, events, totals, admitted, uncounted>>

\* Mutant: an event counts for a moment longer than the window.
Trim_Late(ev, wall) == SelectSeq(ev, LAMBDA t : t >= wall - Window)

\* _trim_locked: drop events from the front up to the first one in the window
\* that ends at the caller's time.  The events are in the order of the lock.
Trim(ev, wall) ==
  LET kept == {i \in 1..Len(ev) : ev[i] > wall - Window}
      first == CHOOSE i \in kept : \A j \in kept : i <= j
  IN IF kept = {} THEN <<>> ELSE SubSeq(ev, first, Len(ev))

\* Mutant: on a tie the newcomer goes as well as any other.
Stalest_Ties(ev, newcomer) ==
  {k \in Tracked(ev) :
     \A j \in Tracked(ev) : ev[k][Len(ev[k])] <= ev[j][Len(ev[j])]}

\* The keys the table may lose when it is over its bound: those whose last
\* call is the oldest.  On a tie the newcomer, last in the table, is kept; it
\* goes itself when every other key was called with a later clock meanwhile.
Stalest(ev, newcomer) ==
  LET last(k) == ev[k][Len(ev[k])]
  IN {k \in Tracked(ev) :
        \A j \in Tracked(ev) \ {k} :
          IF k = newcomer THEN last(k) < last(j) ELSE last(k) <= last(j)}

\* Mutant: no key is ever dropped.
Record_Unbounded(p, over) ==
  LET k == p.key
      trimmed == Trim(events[k], p.wall)
      counts == ~over \/ mode = "warn"
  IN
  /\ over <=> Len(trimmed) >= MaxCalls
  /\ totals' = [totals EXCEPT ![k] = IF over THEN @ + 1 ELSE @]
  /\ events' = [events EXCEPT ![k] = IF counts THEN Append(trimmed, p.wall) ELSE trimmed]
  /\ admitted' = [admitted EXCEPT ![k] =
                    IF counts THEN Append(@, [read |-> p.read, at |-> now]) ELSE @]
  /\ uncounted' = uncounted

\* SlidingWindowRateTracker.record under its lock, for the call p that has read
\* the clock.  over tells whether the call is over budget; it is counted, and
\* goes ahead, unless it is refused for that.
Record(p, over) ==
  LET k == p.key
      trimmed == Trim(events[k], p.wall)
      counts == ~over \/ mode = "warn"
      table == [events EXCEPT ![k] = IF counts THEN Append(trimmed, p.wall) ELSE trimmed]
      log == [admitted EXCEPT ![k] =
                IF counts THEN Append(@, [read |-> p.read, at |-> now]) ELSE @]
  IN
  /\ over <=> Len(trimmed) >= MaxCalls
  /\ totals' = [totals EXCEPT ![k] = IF over THEN @ + 1 ELSE @]
  /\ IF Cardinality(Tracked(table)) > MaxTrackedKeys
     THEN \E v \in Stalest(table, k) :
            /\ events' = [table EXCEPT ![v] = <<>>]
            /\ admitted' = [log EXCEPT ![v] = <<>>]
            /\ uncounted' = (uncounted \/ (v = k /\ \E j \in Tracked(table) \ {k} :
                                            log[j][Len(log[j])].at <= p.read))
     ELSE events' = table /\ admitted' = log /\ uncounted' = uncounted

\* The call p has the lock; nothing is refused when warning.
Charge(p, refused) ==
  /\ \E over \in BOOLEAN : Record(p, over) /\ (refused <=> (mode = "block" /\ over))
  /\ pending' = pending \ {p}
  /\ UNCHANGED <<mode, now, step>>

\* check_rate of a single-instance tool: search_records, read_record,
\* execute_method, ...  Nothing is tracked when off.
ToolCall(by, k) ==
  /\ Len(admitted[k]) < MaxRecorded /\ totals[k] < MaxRefused
  /\ IF mode = "off" THEN UNCHANGED limitVars ELSE ReadClock(by, k)

ToolCharge(p) ==
  /\ p.by \in Threads /\ p.key \in Keys
  /\ \E refused \in BOOLEAN : Charge(p, refused)

\* health_check asks for a report, which trims every key with the lock.
AskReport(by) == mode # "off" /\ ReadClock(by, Health)

Report(p) ==
  /\ p.key = Health
  /\ events' = [k \in Keys |-> Trim(events[k], p.wall)]
  /\ pending' = pending \ {p}
  /\ UNCHANGED <<mode, now, step, totals, admitted, uncounted>>

Tick ==
  /\ now < MaxTime /\ now' = now + 1
  /\ UNCHANGED <<mode, step, pending, events, totals, admitted, uncounted>>

ClockSetBack ==
  /\ step < MaxStep /\ step' = step + 1
  /\ UNCHANGED <<mode, now, pending, events, totals, admitted, uncounted>>

LimitNext ==
  \/ \E by \in Threads : AskReport(by) \/ \E k \in Keys : ToolCall(by, k)
  \/ \E p \in pending : ToolCharge(p) \/ Report(p)
  \/ Tick \/ ClockSetBack

-----------------------------------------------------------------------------
Spaced(log) ==
  \A i \in 1..(Len(log) - MaxCalls) :
    log[i].read + Window <= log[i + MaxCalls].at + step

\* Of MaxCalls + 1 calls of a key let through one after the other, counted from
\* when its record was last dropped to make room for another key, the last has
\* the lock no sooner than a window after the first read the clock, less what the
\* clock was set back.  (Counted from the lock alone, or from the clock alone, a
\* thread that is late on its way between the two lets one more through.)
WindowsHoldTheBudget ==
  mode = "block" => \A k \in Keys : Spaced(admitted[k])

\* The table of tracked keys stays within its bound.
KeysAreBounded == Cardinality(Tracked(events)) <= MaxTrackedKeys

\* Making room drops the key whose call is being recorded only if every other
\* key had a call after this one read the clock, unless the clock was set back.
NewcomersAreCounted == uncounted => step > 0

\* Blocking keeps its budget, through the eviction of keys, fan-outs that charge
\* many keys, and threads that are late at the lock
\* (SlidingWindowRateTracker.record, check_rate).
BudgetHolds == WindowsHoldTheBudget /\ NewcomersAreCounted

\* The last n calls of k that were let through had the lock after time t.
LastCameAfter(k, n, t) ==
  /\ Len(admitted[k]) >= n
  /\ \A i \in 1..n : admitted[k][Len(admitted[k]) - n + i].at > t

\* A call is over budget only for a key that let MaxCalls calls through since a
\* window before the call read the clock, lengthened by no more than what the
\* clock was set back.  By the time the call has the lock they may be older.
RefusalsAreEarned ==
  [][\A p \in pending \ pending' :
       p.key \in Keys /\ totals'[p.key] > totals[p.key] =>
         LastCameAfter(p.key, MaxCalls, p.read - Window - step)]_limitVars

-----------------------------------------------------------------------------
(* What makes the properties inductive.                                    *)

\* The log of a key is in the order of the lock, its last entries are the events
\* counted against it, each by no more than what the clock was set back, and
\* what is counted no more had read the clock a window ago.
CountsMatchTheLog(ev, log) ==
  LET old == Len(log) - Len(ev) IN
    /\ old >= 0
    /\ \A i \in 1..Len(log) :
         /\ log[i].read <= log[i].at /\ log[i].at <= now
         /\ \A j \in 1..i : log[j].at <= log[i].at
    /\ \A i \in 1..Len(ev) : log[old + i].read \in ev[i]..(ev[i] + step)
    /\ \A i \in 1..old : log[i].read + Window <= now + step

\* A time read earlier, and what the clock showed then.
ClocksWereRead ==
  \A p \in pending : p.read <= now /\ p.read \in p.wall..(p.wall + step)

LimitInv ==
  /\ LimitTypeOK /\ IsFiniteSet(Tracked(events)) /\ KeysAreBounded /\ BudgetHolds
  /\ ClocksWereRead
  /\ \A k \in Keys : CountsMatchTheLog(events[k], admitted[k])
=============================================================================

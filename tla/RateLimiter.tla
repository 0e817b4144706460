---------------------------- MODULE RateLimiter ----------------------------
(***************************************************************************)
(* agent/ratelimit.py: two sliding windows per client and two for the whole*)
(* deployment.  check reads the clock before it takes the lock, so the     *)
(* instant a call is recorded under may lie before the instant it is let   *)
(* through: calls enter a window's deque out of order, and an older reading*)
(* can follow a newer one that has already dropped hits.                   *)
(***************************************************************************)
EXTENDS Integers, Sequences, FiniteSetsExt

CONSTANTS
    Callers,      \* calls of check, each made once
    Clients,      \* client keys
    Everyone,     \* stands for the global windows
    Spans,        \* the minute and the day
    IpLimit,      \* span -> calls a client may make, 0 for no limit
    GlobalLimit,  \* span -> calls all clients may make, 0 for no limit
    Seconds,      \* span -> its length
    PerSecond,    \* clock ticks in a second
    MaxStall,     \* bound: ticks a thread spends between its clock reading and the lock
    MaxClock,     \* bound: last instant
    NotRead       \* stands for "no clock reading"

ASSUME LimiterAssumption ==
    /\ Everyone \notin Clients /\ NotRead \notin Int /\ IsFiniteSet(Spans)
    /\ IpLimit \in [Spans -> Nat] /\ GlobalLimit \in [Spans -> Nat]
    /\ Seconds \in [Spans -> Nat] /\ PerSecond \in Nat \ {0}
    /\ MaxStall \in Nat /\ MaxClock \in Nat

VARIABLES
    clock,     \* time.monotonic
    now,       \* per caller: what it read, NotRead before and after its check
    hits,      \* per window: its deque, each hit with the caller that made it
    admitted   \* the calls let through: who, and when (not when it was read)

limiterVars == <<clock, now, hits, admitted>>

Windows   == (Clients \cup {Everyone}) \X Spans
Limit(w)  == IF w[1] = Everyone THEN GlobalLimit[w[2]] ELSE IpLimit[w[2]]
Length(w) == Seconds[w[2]] * PerSecond

\* (*self._ip[client], *self._global)
WindowsOf(cl) == {cl, Everyone} \X Spans

Hit == [at : Nat, by : Callers]

\* Mutant of Young: a hit leaves one tick early.
YoungTooBriefly(w, n, h) == n - h.at < Length(w) - 1

Young(w, n, h) == n - h.at < Length(w)

\* The hits left after the pops at the head: one that is out of order may outstay its time.
Kept(w, n) ==
    LET h     == hits[w]
        young == {i \in 1 .. Len(h) : Young(w, n, h[i])}
        first == CHOOSE i \in young : \A j \in young : i <= j
    IN  IF young = {} THEN <<>> ELSE SubSeq(h, first, Len(h))

\* Mutant of Pause: the fraction of a second is cut off.
PauseCut(w, n) ==
    IF Limit(w) = 0 \/ Len(Kept(w, n)) < Limit(w) THEN 0
    ELSE LET s == (Length(w) - (n - Head(Kept(w, n)).at)) \div PerSecond
         IN  IF s > 1 THEN s ELSE 1

\* _Window.wait: whole seconds until the window takes one more call.
Pause(w, n) ==
    IF Limit(w) = 0 \/ Len(Kept(w, n)) < Limit(w) THEN 0
    ELSE LET s == (Length(w) - (n - Head(Kept(w, n)).at)) \div PerSecond + 1
         IN  IF s > 1 THEN s ELSE 1

Allowed(cl, n) == \A w \in WindowsOf(cl) : Pause(w, n) = 0

\* The seconds the caller is told to wait: every window must be open.
RetryAfter(cl, n) == Max({Pause(w, n) : w \in WindowsOf(cl)})

\* wait pops what has expired, whether or not the call is let through.
Popped(cl, n) ==
    [w \in Windows |-> IF w \in WindowsOf(cl) /\ Limit(w) > 0 THEN Kept(w, n) ELSE hits[w]]

Recorded(cl, n, c) ==
    [w \in Windows |-> IF w \in WindowsOf(cl) /\ Limit(w) > 0
                       THEN Append(Kept(w, n), [at |-> n, by |-> c]) ELSE hits[w]]

-----------------------------------------------------------------------------
ReadClock(c) ==
    /\ now[c] = NotRead
    /\ now' = [now EXCEPT ![c] = clock]
    /\ UNCHANGED <<clock, hits, admitted>>

\* Under the lock: recorded in every window or in none.
Admit(c, cl) ==
    /\ now[c] # NotRead
    /\ Allowed(cl, now[c])
    /\ hits' = Recorded(cl, now[c], c)
    /\ admitted' = admitted \cup {[by |-> c, client |-> cl, at |-> clock]}
    /\ now' = [now EXCEPT ![c] = NotRead]
    /\ UNCHANGED clock

Refuse(c, cl) ==
    /\ now[c] # NotRead
    /\ ~Allowed(cl, now[c])
    /\ hits' = Popped(cl, now[c])
    /\ now' = [now EXCEPT ![c] = NotRead]
    /\ UNCHANGED <<clock, admitted>>

\* Time passes, but no thread stalls for longer than MaxStall.
Tick ==
    /\ clock < MaxClock
    /\ \A c \in Callers : now[c] # NotRead => clock - now[c] < MaxStall
    /\ clock' = clock + 1
    /\ UNCHANGED <<now, hits, admitted>>

LimiterInit ==
    /\ clock = 0
    /\ now = [c \in Callers |-> NotRead]
    /\ hits = [w \in Windows |-> <<>>]
    /\ admitted = {}

CallerIsNew(c) == \A a \in admitted : a.by # c

LimiterNext ==
    \/ Tick
    \/ \E c \in Callers : ReadClock(c) /\ CallerIsNew(c)
    \/ \E c \in Callers, cl \in Clients : Admit(c, cl) \/ Refuse(c, cl)

LimiterSpec == LimiterInit /\ [][LimiterNext]_limiterVars

-----------------------------------------------------------------------------
(* Properties *)

CountsIn(a, w) == w[1] = Everyone \/ w[1] = a.client
Recent(a, w)   == clock < a.at + Length(w) - MaxStall

\* However the clock readings and the lock interleave, no window lets more calls through than
\* its limit in any stretch of real time that is shorter than it by the longest stall.
RateHolds ==
    \A w \in Windows : Limit(w) > 0 =>
        Cardinality({a \in admitted : CountsIn(a, w) /\ Recent(a, w)}) <= Limit(w)

\* A client that is told to wait and does is let through, unless others were in between.
RetryAfterIsEnough ==
    \A cl \in Clients :
        ~Allowed(cl, clock) => Allowed(cl, clock + RetryAfter(cl, clock) * PerSecond)
=============================================================================

---------------------------- MODULE DailyBudget ----------------------------
(***************************************************************************)
(* What a daily budget promises, whoever keeps the books: an ad is served   *)
(* only while the budget lasts, or shortly after it was spent, or by a      *)
(* server that could not tell; and nothing is charged but the reports of    *)
(* ads that were served, a known number of times.                          *)
(*                                                                         *)
(* The promise is about what is served, not about what is spent: the        *)
(* reports of ads served in time may all come when the budget is spent, and *)
(* after midnight they are charged to the new day.                         *)
(***************************************************************************)
EXTENDS Naturals

CONSTANTS
    Servers,    \* who decides
    Items,      \* line items with a daily budget
    Budget,     \* Budget[i], in impressions
    Window,     \* ticks for which a spent budget may go unnoticed
    Charges,    \* times one report may be charged
    Reports     \* times one ad may be reported

VARIABLES
    spent,      \* spent[i]: charged today
    out,        \* out[i]: reports of i that may yet come
    since,      \* since[i]: ticks since i's budget was spent, up to Window + 1
    unsighted   \* unsighted[s]: line items of whose spend s has no account, or
                \* none but of what it charged itself

budgetVars == <<spent, out, since, unsighted>>

Init ==
    /\ spent = [i \in Items |-> 0]
    /\ out = [i \in Items |-> 0]
    /\ since = [i \in Items |-> 0]
    /\ unsighted = [s \in Servers |-> {}]

Exhausted(i) == spent[i] >= Budget[i]

MayServe(s, i) == ~Exhausted(i) \/ since[i] <= Window \/ i \in unsighted[s]

\* s decides without having asked the books, or without their answer.
LoseSight(s, i) ==
    /\ unsighted' = [unsighted EXCEPT ![s] = @ \cup {i}]
    /\ UNCHANGED <<spent, out, since>>

Serve(s, i) ==
    /\ MayServe(s, i)
    /\ out' = [out EXCEPT ![i] = @ + Reports]
    /\ unsighted' = [unsighted EXCEPT ![s] = {}]
    /\ UNCHANGED <<spent, since>>

\* s serves something else, or nothing.
PassOver(s) ==
    /\ unsighted' = [unsighted EXCEPT ![s] = {}]
    /\ UNCHANGED <<spent, out, since>>

Charge(i, n) ==
    /\ out[i] > 0
    /\ out' = [out EXCEPT ![i] = @ - 1]
    /\ spent' = [spent EXCEPT ![i] = @ + n]
    /\ UNCHANGED <<since, unsighted>>

Tick ==
    /\ since' = [i \in Items |-> IF Exhausted(i) /\ since[i] <= Window
                                 THEN since[i] + 1 ELSE since[i]]
    /\ UNCHANGED <<spent, out, unsighted>>

NewDay ==
    /\ spent' = [i \in Items |-> 0]
    /\ since' = [i \in Items |-> 0]
    /\ UNCHANGED <<out, unsighted>>

Next ==
    \/ \E s \in Servers, i \in Items : LoseSight(s, i) \/ Serve(s, i)
    \/ \E s \in Servers : PassOver(s)
    \/ \E i \in Items, n \in 0..Charges : Charge(i, n)
    \/ Tick
    \/ NewDay

Spec == Init /\ [][Next]_budgetVars

------------------------------------------------------------------------------

\* The most that a day's books may come to if nothing more is served.
Committed(i) == spent[i] + Charges * out[i]

\* "A daily budget" bounds what is committed, not what is charged: it grows only
\* with ads that a server may serve, however late the reports come and however
\* often.  Once the budget is spent and the window is over, and as long as every
\* server has the books' account of the spend, the day cannot cost more than it will
\* already have cost.
CommittedWithinBudget ==
    [][\A i \in Items :
          Committed(i)' > Committed(i) => \E s \in Servers : MayServe(s, i)]_budgetVars
=============================================================================

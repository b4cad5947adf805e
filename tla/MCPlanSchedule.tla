---------------------------- MODULE MCPlanSchedule ----------------------------
(***************************************************************************)
(* Instances of PlanSchedule for TLC: two candidates, a window of three    *)
(* days, and every design of up to two sessions drawn from the sets below, *)
(* in the order the code sorts them (by day, then id).                     *)
(***************************************************************************)
EXTENDS PlanSchedule

Two       == {1, 2}
One       == {1}
OneThree  == {1, 3}
ZeroThree == {0, 3}
PastAndLate == {0, 5}

Sorted(s) ==
  \A i \in 1..(Len(s) - 1) :
    \/ s[i].day < s[i + 1].day
    \/ s[i].day = s[i + 1].day /\ s[i].cand <= s[i + 1].cand

DesignsOf(sessions, n, exclusions, horizons, perDays) ==
  [sessions : {s \in UNION {[1..k -> sessions] : k \in 0..n} : Sorted(s)},
   excluded : exclusions, horizon : horizons, perDay : perDays]

\* Unknown candidates, unusable days, repeated session numbers, and depths
\* stated above and below what is placed.
AnyDesigns ==
  DesignsOf([cand : {1, 2, 3}, day : {NoDay, 0, 2}, session : {1, 2},
             of : {0, 3}], 2, {{}, {2}}, {NoDay}, {0})

\* Horizons before, inside and past the window, loads of every size, and
\* everything excluded.
HorizonDesigns ==
  DesignsOf([cand : {1, 2}, day : {1, 3}, session : {1}, of : {1, 3}],
            2, {{}, {1, 2}}, {NoDay, 0, 2, 9}, {0, 1, 9})

AllDesigns == AnyDesigns \cup HorizonDesigns
=============================================================================

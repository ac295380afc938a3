--------------------------- MODULE MCTrackerForm ---------------------------
(* Instances of TrackerForm for TLC: months of three days; every way to fill in a *)
(* window of a few days, and a few plans of every cost.                           *)
EXTENDS TrackerForm

Blank == [mode |-> "exact", outbound |-> Null, return |-> Null, month |-> Null,
          start |-> Null, end |-> Null, return_start |-> Null, return_end |-> Null,
          min_nights |-> Null, max_nights |-> Null,
          markets |-> 1, per_run |-> 1, interval |-> 1, ack |-> FALSE, rest |-> TRUE]

ExactForms == {[Blank EXCEPT !.outbound = o, !.return = r] : o, r \in {Null, Garbled, 0, 1, 2}}
PresetForms == {[Blank EXCEPT !.mode = "flexible_preset", !.month = n] : n \in {Null, 0, 1, 2}}

WindowForms ==
    {[Blank EXCEPT !.mode = "custom_window", !.start = s, !.end = e, !.return_start = rs,
                   !.return_end = re, !.min_nights = mn, !.max_nights = mx, !.per_run = 2] :
        s, e \in {Null, 0, 1, 3}, rs, re \in {Null, Garbled, 2, 5}, mn, mx \in {Null, 0, 1, 2, 3}}

Costly ==
    {[Blank EXCEPT !.mode = "custom_window", !.start = 0, !.end = 2, !.min_nights = 1,
                   !.max_nights = 2, !.markets = m, !.per_run = p, !.interval = i, !.ack = a] :
        m, p, i \in 1..2, a \in BOOLEAN}
Wrong == {[Blank EXCEPT !.mode = "custom_window", !.rest = FALSE], [Blank EXCEPT !.mode = "other"]}

Stray == {[f EXCEPT !.outbound = 1] : f \in {g \in Costly : g.interval = 1 /\ g.per_run = 2}}

MCForms == ExactForms \cup PresetForms \cup WindowForms \cup Costly \cup Wrong
MCEdits == Costly \cup Stray \cup PresetForms \cup {f \in ExactForms : f.return = 2}
=============================================================================

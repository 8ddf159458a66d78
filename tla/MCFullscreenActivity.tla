----------------------- MODULE MCFullscreenActivity -----------------------
(* FullscreenActivity for TLC: up to two wheels, two values.                *)
EXTENDS FullscreenActivity

NoWheels  == <<>>
OneWheel  == <<"aperture">>
TwoWheels == <<"aperture", "iso">>

(* One list, and for the aperture a second one in another order: a change   *)
(* of lens moves the values under the wheel.                                *)
FixedMenus == [k \in Kinds |-> {<<"a", "b">>}]
LensMenus  == [k \in Kinds |-> IF k = "aperture" THEN {<<"a", "b">>, <<"b">>}
                                                 ELSE {<<"a", "b">>}]

(* Bound: a camera starts with the first value of each list, and the user   *)
(* does one thing, or two if the camera then changes nothing by itself, has *)
(* a list of two values, and the controls are hidden. Photos and focus      *)
(* points, which change nothing, are left out.                              *)
ChangesBudget ==
    /\ resumes = 0 => \A k \in Kinds : camera.setting[k] = camera.menu[k][1]
    /\ resumes > 0 => ~hidePending
    /\ \A j \in DOMAIN tasks : tasks[j].op \notin {"photo", "autofocus"}
    /\ events > 1 => /\ changes = 0 /\ ~mVisible
                     /\ \A k \in Kinds : Len(camera.menu[k]) > 1

(* Bound: three user events around one resume, or two around two; with two  *)
(* and two, no long queues. What can change neither the fields nor the view *)
(* is left out: photos, focus points and the controls, hidden at first.     *)
RestBudget ==
    /\ events + resumes <= 4
    /\ resumes > 0 => ~hidePending /\ ~mVisible
    /\ \A j \in DOMAIN tasks : tasks[j].op \notin {"photo", "autofocus"}
    /\ events > 1 /\ resumes > 1 => Len(tasks) <= 4 /\ Len(uiQueue) <= 1

=============================================================================

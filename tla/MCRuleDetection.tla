---------------------------- MODULE MCRuleDetection ----------------------------
(* Values of the constants of RuleDetection for TLC.                       *)
EXTENDS RuleDetection

CONSTANTS r1, r2, left, right

MCRules == {r1, r2}
MCCells == {left, right}

CrowdIn(roi, max, lookout) ==
  [type |-> Crowd, roi |-> roi, max |-> max, lookout |-> lookout]
RestrictedIn(roi) == [type |-> Restricted, roi |-> roi, max |-> 0, lookout |-> 0]
ShopliftingRule == [type |-> Shoplifting, roi |-> {}, max |-> 0, lookout |-> 0]

\* A crowd rule that may become a restricted area and back, and a shoplifting
\* rule: never two rules of one type.
OneOfAType ==
  [r \in MCRules |->
     IF r = r1 THEN {CrowdIn(MCCells, 1, 1), RestrictedIn({left})}
     ELSE {ShopliftingRule}]

\* Two restricted areas that overlap.
TwoAreas ==
  [r \in MCRules |-> {RestrictedIn(IF r = r1 THEN {left} ELSE MCCells)}]

NoFaults == {}
DatabaseOnly == {"database"}
AllFaults == FaultKinds

\* The loop sees every second frame of the camera.
EverySecondFrame == {2}
=============================================================================

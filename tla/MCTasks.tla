------------------------------ MODULE MCTasks -------------------------------
EXTENDS Tasks

MCParent == [H |-> "Root", M |-> "H", B |-> "M", A |-> "B", W1 |-> "B", L |-> "B", W3 |-> "W1",
             J3 |-> "W3", W2 |-> "Root", J2 |-> "W2", J4 |-> "L"]
MCRun == DOMAIN MCParent \union {"Root"}
MCStarter == [MCParent EXCEPT !.W2 = "H"]
MCBelow ==
  [Root |-> DOMAIN MCParent,
   H |-> {"M", "B", "A", "W1", "W3", "J3", "L", "J4"},
   M |-> {"B", "A", "W1", "W3", "J3", "L", "J4"},
   B |-> {"A", "W1", "W3", "J3", "L", "J4"},
   A |-> {}, W1 |-> {"W3", "J3"}, W3 |-> {"J3"}, J3 |-> {}, L |-> {"J4"}, J4 |-> {},
   W2 |-> {"J2"}, J2 |-> {}]
MCMask == [r \in MCRun |-> IF r \in {"M", "B", "A", "L", "J4"} THEN 1 ELSE 0]
MCBracket == {[mask |-> "M", body |-> "B", acquire |-> "A", use |-> "W1", release |-> "L"]}
MCJobOf == [W1 |-> "W3", W2 |-> "J2", W3 |-> "J3", L |-> "J4"]
MCKeyOf == [W1 |-> "k", W2 |-> "k", W3 |-> "k", L |-> "k"]
MCNeed == [W1 |-> 1, W2 |-> 2, W3 |-> 1, L |-> 1]
=============================================================================

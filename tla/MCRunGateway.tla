---------------------------- MODULE MCRunGateway ----------------------------
(* Instances of RunGateway: the stories that are told.                     *)
EXTENDS RunGateway

Told ==
  { {"stop", "break", "queued", "talk"}, {"stop", "compact"}, {"deaf", "compact"},
    {"cancel", "break", "talk"}, {"cancel", "compact"}, {"undo", "compact", "talk"},
    {"answer", "crash", "break", "third"}, {"answer", "leave", "third"},
    {"compact", "crash", "break"}, {"compact", "crash", "talk"}, {"compact", "crash", "answer"},
    {"manual", "third"}, {"manual", "compact"}, {"compact", "leave", "third"},
    {"answer", "compact", "break"}, {"compact", "shrink", "talk"},
    {"answer", "crash", "break", "repeat"} }
=============================================================================

-------------------------- MODULE MCControlChannel --------------------------
EXTENDS ControlChannel, TLC

CONSTANTS m1, m2, m3, m4

Script(a, b, c, d, s) ==
  [kind |-> m1 :> a @@ m2 :> b @@ m3 :> c @@ m4 :> d, sessions |-> s]

SomeScripts == {
  Script("install", "discover", "remove", "absent", {}),
  Script("install", "discover", "stop", "absent", {}),
  Script("report", "report", "check", "incomplete", {}),
  Script("report", "update", "disconnect", "absent", {}),
  Script("incomplete", "discover", "restart", "absent", {}),
  Script("halt", "incomplete", "disconnect", "absent", {0})}
=============================================================================

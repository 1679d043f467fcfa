------------------------------- MODULE Device -------------------------------
(***************************************************************************)
(* The TUN device as a program that asks for one name sees it on Linux: it *)
(* is open for one user at a time, and a read that has not returned keeps  *)
(* the name when the device is closed already.  TunDevice implements this  *)
(* module there; DesktopClient and VpnLifecycle rely on it.                *)
(***************************************************************************)
CONSTANT Users

VARIABLES open,         \* users that have the device open
          reading       \* users with a read that has not returned

deviceVars == <<open, reading>>

DeviceInit == open = {} /\ reading = {}

Obtain(u) == /\ open = {} /\ reading = {}
             /\ open' = {u}
             /\ UNCHANGED reading

ReadBegins(u) == /\ u \in open
                 /\ reading' = reading \cup {u}
                 /\ UNCHANGED open

ReadEnds(u) == /\ reading' = reading \ {u}
               /\ UNCHANGED open

Release(u) == /\ open' = open \ {u}
              /\ UNCHANGED reading

(* The process ends, and the system closes what it had open.               *)
Abandoned == open' = {} /\ reading' = {}

DeviceNext == \/ Abandoned
              \/ \E u \in Users : Obtain(u) \/ ReadBegins(u) \/ ReadEnds(u) \/ Release(u)

DeviceSpec == DeviceInit /\ [][DeviceNext]_deviceVars
=============================================================================

-------------------------------- MODULE Desktop --------------------------------
(***************************************************************************)
(* entrypoint.sh: the display server Xvfb, and in loops around it what     *)
(* needs a display: the window manager (after a loop that paints the       *)
(* root), x11vnc, and the browser.  The container may be stopped and       *)
(* started again; then /tmp and the profile of the browser are as they     *)
(* were left.                                                              *)
(*                                                                         *)
(* Time is counted in the seconds that the loops sleep.  All tools are     *)
(* installed but for xsetroot, which may fail to paint at any time.        *)
(* websockify, which is started once and needs no display, is left out.    *)
(***************************************************************************)
EXTENDS Naturals

CONSTANTS
  WmTries, VncTries,  \* tries of fluxbox (and of xsetroot), and of x11vnc
  StartTime,          \* (bound) seconds that Xvfb takes to come up
  HasSecret,          \* API_KEY or VNC_PASSWORD is set
  MaxBoots,           \* bound: how often the container is started
  MaxFaults           \* bound: how often fluxbox or x11vnc fails in a container

\* The tries last longer than the display server takes.
ASSUME DesktopAssumption ==
  /\ WmTries \in Nat /\ VncTries \in Nat /\ StartTime \in Nat /\ MaxFaults \in Nat
  /\ HasSecret \in BOOLEAN /\ MaxBoots \in Nat \ {0}
  /\ StartTime + MaxFaults + 1 < WmTries /\ StartTime + MaxFaults + 1 < VncTries

Loop == {"paint", "wm", "vnc"}

VARIABLES
  box,        \* "up" | "down": the container
  boots,
  x,          \* "off" | "starting" | "up" | "dead": Xvfb
  age,        \* seconds since it was started
  socket,     \* its lock and its socket are in /tmp
  loop,       \* [Loop -> "off" | "try" | "sleep" | "running" | "ended" | "gaveUp"]
  tries,      \* the n of each loop
  browser,    \* "off" | "waiting" | "launch" | "running" | "sleep"
  singleton,  \* the lock of a browser is in the profile
  faults,     \* how often a service failed
  xCrashed    \* (history) Xvfb was up and has failed

services == <<loop, tries, faults>>
vars == <<box, boots, x, age, socket, services, browser, singleton, xCrashed>>

Init ==
  /\ box = "down" /\ boots = 0 /\ x = "off" /\ age = 0 /\ socket = FALSE
  /\ loop = [l \in Loop |-> "off"] /\ tries = [l \in Loop |-> 0]
  /\ browser = "off" /\ singleton = FALSE /\ faults = 0 /\ xCrashed = FALSE

\* the start of everything, up to exec api
Booted ==
  /\ box = "down" /\ boots < MaxBoots
  /\ box' = "up" /\ boots' = boots + 1
  /\ x' = "starting" /\ age' = 0 /\ xCrashed' = FALSE
  /\ loop' = [l \in Loop |-> IF l = "paint" \/ (l = "vnc" /\ HasSecret) THEN "try" ELSE "off"]
  /\ tries' = [l \in Loop |-> 0] /\ faults' = 0
  /\ browser' = "waiting"
  /\ UNCHANGED singleton

\* (mutant) the lock and the socket of an earlier instance are left
BootOverLock == Booted /\ UNCHANGED socket

Boot == Booted /\ socket' = FALSE

\* Xvfb refuses a display that seems to be in use.
XReady ==
  /\ x = "starting"
  /\ x' = IF socket THEN "dead" ELSE "up"
  /\ socket' = TRUE
  /\ UNCHANGED <<box, boots, age, services, browser, singleton, xCrashed>>

-------------------------------------------------------------------------------
(* The loops *)

Limit(l) == IF l = "vnc" THEN VncTries ELSE WmTries

\* (mutant) the next try follows at once
AfterFailureHurried(l) == IF tries[l] + 1 >= Limit(l) THEN "gaveUp" ELSE "try"

AfterFailure(l) == IF tries[l] + 1 >= Limit(l) THEN "gaveUp" ELSE "sleep"

Fails(l) ==
  /\ tries' = [tries EXCEPT ![l] = @ + 1]
  /\ loop' = [loop EXCEPT ![l] = AfterFailure(l)]

\* fluxbox or x11vnc
Try(l) ==
  /\ l # "paint" /\ loop[l] = "try"
  /\ \/ x = "up" /\ loop' = [loop EXCEPT ![l] = "running"] /\ UNCHANGED tries
     \/ x # "up" /\ Fails(l)
  /\ UNCHANGED <<box, boots, x, age, socket, browser, singleton, faults, xCrashed>>

\* xsetroot, after which fluxbox has its turn; this loop sleeps before it counts
Paint ==
  /\ loop["paint"] = "try"
  /\ \/ x = "up" /\ loop' = [loop EXCEPT !["paint"] = "ended", !["wm"] = "try"]
     \/ loop' = [loop EXCEPT !["paint"] = "sleep"]
  /\ UNCHANGED <<box, boots, x, age, socket, tries, browser, singleton, faults, xCrashed>>

\* A second goes by when everybody sleeps for it.
Tick ==
  /\ box = "up" /\ \A l \in Loop : loop[l] # "try"
  /\ x = "starting" => age < StartTime
  /\ x = "starting" \/ browser = "sleep" \/ \E l \in Loop : loop[l] = "sleep"
  /\ age' = IF x = "starting" THEN age + 1 ELSE age
  /\ LET painted == loop["paint"] = "sleep" /\ tries["paint"] + 1 >= WmTries
     IN /\ loop' = [l \in Loop |->
             IF painted /\ l # "vnc" THEN IF l = "paint" THEN "gaveUp" ELSE "try"
             ELSE IF loop[l] = "sleep" THEN "try" ELSE loop[l]]
        /\ tries' = [tries EXCEPT !["paint"] = IF loop["paint"] = "sleep" THEN @ + 1 ELSE @]
  /\ browser' = IF browser = "sleep" THEN "launch" ELSE browser
  /\ UNCHANGED <<box, boots, x, socket, singleton, faults, xCrashed>>

\* fluxbox or x11vnc ends: with an error, after which it is tried again, or without
Fault(l) ==
  /\ l # "paint" /\ loop[l] = "running"
  /\ \/ faults < MaxFaults /\ faults' = faults + 1 /\ Fails(l)
     \/ loop' = [loop EXCEPT ![l] = "ended"] /\ UNCHANGED <<tries, faults>>
  /\ UNCHANGED <<box, boots, x, age, socket, browser, singleton, xCrashed>>

-------------------------------------------------------------------------------
(* The browser: it waits for the socket, and is started whenever it ended *)

AwaitSocket ==
  /\ browser = "waiting" /\ socket
  /\ browser' = "launch"
  /\ UNCHANGED <<box, boots, x, age, socket, services, singleton, xCrashed>>

\* (mutant) the lock of an earlier instance, which keeps a browser from starting, is
\* not removed
LaunchOverLock ==
  /\ browser = "launch"
  /\ browser' = IF x = "up" /\ ~singleton THEN "running" ELSE "sleep"
  /\ singleton' = TRUE
  /\ UNCHANGED <<box, boots, x, age, socket, services, xCrashed>>

Launch ==
  /\ browser = "launch"
  /\ browser' = IF x = "up" THEN "running" ELSE "sleep"
  /\ singleton' = (x = "up")
  /\ UNCHANGED <<box, boots, x, age, socket, services, xCrashed>>

BrowserExits ==
  /\ browser = "running" /\ browser' = "sleep"
  /\ singleton' \in BOOLEAN
  /\ UNCHANGED <<box, boots, x, age, socket, services, xCrashed>>

-------------------------------------------------------------------------------
\* Xvfb is not started again; what ran on the display fails.
XCrash ==
  /\ x = "up" /\ x' = "dead" /\ xCrashed' = TRUE
  /\ tries' = [l \in Loop |-> IF loop[l] = "running" THEN tries[l] + 1 ELSE tries[l]]
  /\ loop' = [l \in Loop |-> IF loop[l] = "running" THEN AfterFailure(l) ELSE loop[l]]
  /\ browser' = IF browser = "running" THEN "sleep" ELSE browser
  /\ UNCHANGED <<box, boots, age, socket, singleton, faults>>

Stop ==
  /\ box = "up" /\ box' = "down" /\ x' = "off"
  /\ loop' = [l \in Loop |-> "off"] /\ browser' = "off"
  /\ UNCHANGED <<boots, age, socket, tries, singleton, faults, xCrashed>>

Progress == XReady \/ Paint \/ Tick \/ AwaitSocket \/ Launch
Next ==
  \/ Boot \/ Progress \/ BrowserExits \/ XCrash \/ Stop
  \/ \E l \in Loop : Try(l) \/ Fault(l)

Spec == Init /\ [][Next]_vars

(***************************************************************************)
(* Whoever can go on does, time too.  Nothing has to fail or to be         *)
(* started.                                                                *)
(***************************************************************************)
FairSpec == Spec
  /\ WF_vars(XReady) /\ WF_vars(Paint) /\ WF_vars(Tick)
  /\ WF_vars(AwaitSocket) /\ WF_vars(Launch)
  /\ \A l \in Loop : WF_vars(Try(l))

-------------------------------------------------------------------------------
(* Properties *)

Lasting(l) == loop[l] \in {"running", "ended"}

\* Every start of the container, whatever the one before has left in /tmp, ends with
\* a window manager and, if there is a secret, a VNC server on the display.
DesktopComesUp ==
  box = "up" ~> \/ x = "up" /\ Lasting("wm") /\ (HasSecret => Lasting("vnc"))
                \/ box = "down" \/ xCrashed

\* The browser comes, and comes back, as long as there is a display.
BrowserComesBack ==
  browser # "off" ~> browser = "running" \/ box = "down" \/ xCrashed

\* Tries are not used up while the display may still come, nor by a few failures.
GivesUpOnlyWithoutDisplay ==
  \A l \in {"wm", "vnc"} : loop[l] = "gaveUp" => xCrashed

===============================================================================

----------------------------- MODULE DesktopProofs ----------------------------
(***************************************************************************)
(* Theorems about Desktop, for any numbers of tries that last longer than  *)
(* the display server takes, any number of containers and of failures.     *)
(***************************************************************************)
EXTENDS Desktop, TLAPS

Service == {"wm", "vnc"}

\* What the loops may be at while the display is on its way.
Waiting == {"off", "try", "sleep"}

TypeOK ==
  /\ box \in {"up", "down"} /\ x \in {"off", "starting", "up", "dead"}
  /\ age \in Nat /\ faults \in Nat /\ socket \in BOOLEAN /\ xCrashed \in BOOLEAN
  /\ loop \in [Loop -> {"off", "try", "sleep", "running", "ended", "gaveUp"}]
  /\ tries \in [Loop -> Nat]

\* A display on its way finds no lock, and nobody has lost more tries than seconds.
Starting ==
  x = "starting" => /\ ~socket /\ age <= StartTime /\ faults = 0
                    /\ \A l \in Service :
                         /\ loop[l] \in Waiting
                         /\ tries[l] <= IF loop[l] = "sleep" THEN age + 1 ELSE age

\* While it is there, only failures of the service itself have been added.
Running ==
  x = "up" => /\ age <= StartTime /\ faults <= MaxFaults
              /\ \A l \in Service : loop[l] # "gaveUp" /\ tries[l] <= age + 1 + faults

\* It is gone when it failed, or with its container.
Gone ==
  /\ x = "dead" => xCrashed
  /\ x = "off" => box = "down" /\ \A l \in Loop : loop[l] = "off"

DesktopInv == TypeOK /\ Starting /\ Running /\ Gone

LEMMA DesktopInitInv == Init => DesktopInv
<1>. SUFFICES ASSUME Init PROVE DesktopInv  OBVIOUS
<1>1. TypeOK  BY DEF Init, TypeOK, Loop
<1>2. Starting /\ Running /\ Gone  BY DEF Init, Starting, Running, Gone
<1>. QED  BY <1>1, <1>2 DEF DesktopInv

LEMMA TypeStep == DesktopInv /\ [Next]_vars => TypeOK'
<1>. SUFFICES ASSUME DesktopInv, [Next]_vars PROVE TypeOK'  OBVIOUS
<1>. USE DEF DesktopInv, TypeOK, Loop
<1>1. CASE Boot  BY <1>1 DEF Boot, Booted
<1>2. CASE XReady  BY <1>2 DEF XReady, services
<1>3. CASE Paint  BY <1>3 DEF Paint
<1>4. CASE Tick  BY <1>4 DEF Tick
<1>5. CASE AwaitSocket \/ Launch \/ BrowserExits
  BY <1>5 DEF AwaitSocket, Launch, BrowserExits, services
<1>6. CASE XCrash  BY <1>6 DEF XCrash, AfterFailure
<1>7. CASE Stop  BY <1>7 DEF Stop
<1>8. ASSUME NEW l \in Loop, Try(l) PROVE TypeOK'
  BY <1>8 DEF Try, Fails, AfterFailure
<1>9. ASSUME NEW l \in Loop, Fault(l) PROVE TypeOK'
  BY <1>9 DEF Fault, Fails, AfterFailure
<1>10. CASE UNCHANGED vars  BY <1>10 DEF vars, services
<1>. QED  BY <1>1, <1>2, <1>3, <1>4, <1>5, <1>6, <1>7, <1>8, <1>9, <1>10 DEF Next, Progress

LEMMA DesktopStep == DesktopInv /\ [Next]_vars => DesktopInv'
<1>. SUFFICES ASSUME DesktopInv, [Next]_vars PROVE DesktopInv'  OBVIOUS
<1>. DEFINE Kept == Starting' /\ Running' /\ Gone'
<1>. USE DesktopAssumption DEF DesktopInv, TypeOK, Starting, Running, Gone, Loop, Service, Waiting
<1>1. CASE Boot
  <2>1. Kept  BY <1>1 DEF Boot, Booted
  <2>. QED  BY <2>1, TypeStep
<1>2. CASE XReady
  <2>1. Kept  BY <1>2 DEF XReady, services
  <2>. QED  BY <2>1, TypeStep
<1>3. CASE Paint
  <2>1. Kept  BY <1>3 DEF Paint
  <2>. QED  BY <2>1, TypeStep
<1>4. CASE Tick
  <2>1. Kept  BY <1>4 DEF Tick
  <2>. QED  BY <2>1, TypeStep
<1>5. CASE AwaitSocket \/ Launch \/ BrowserExits
  <2>1. Kept  BY <1>5 DEF AwaitSocket, Launch, BrowserExits, services
  <2>. QED  BY <2>1, TypeStep
<1>6. CASE XCrash
  <2>1. Kept  BY <1>6 DEF XCrash
  <2>. QED  BY <2>1, TypeStep
<1>7. CASE Stop
  <2>1. Kept  BY <1>7 DEF Stop
  <2>. QED  BY <2>1, TypeStep
<1>8. ASSUME NEW l \in Loop, Try(l) PROVE DesktopInv'
  <2>1. Kept  BY <1>8 DEF Try, Fails, AfterFailure, Limit
  <2>. QED  BY <2>1, TypeStep
<1>9. ASSUME NEW l \in Loop, Fault(l) PROVE DesktopInv'
  <2>1. Kept  BY <1>9 DEF Fault, Fails, AfterFailure, Limit
  <2>. QED  BY <2>1, TypeStep
<1>10. CASE UNCHANGED vars
  <2>1. Kept  BY <1>10 DEF vars, services
  <2>. QED  BY <2>1, TypeStep
<1>. QED  BY <1>1, <1>2, <1>3, <1>4, <1>5, <1>6, <1>7, <1>8, <1>9, <1>10 DEF Next, Progress

\* No service gives up while the display may still come or is there, however the
\* containers before ended, as long as the tries last longer.
THEOREM TriesSuffice == Spec => []GivesUpOnlyWithoutDisplay
<1>1. DesktopInv => GivesUpOnlyWithoutDisplay
  BY DEF DesktopInv, TypeOK, Starting, Running, Gone, Waiting, Loop, Service, GivesUpOnlyWithoutDisplay
<1>. QED  BY <1>1, DesktopInitInv, DesktopStep, PTL DEF Spec

===============================================================================

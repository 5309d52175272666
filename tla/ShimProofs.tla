----------------------------- MODULE ShimProofs -----------------------------
(***************************************************************************)
(* Proofs about the libraries of Shims, one after another: Wi-Fi, the      *)
(* stack check, the image decoders, the HTTP clients and the sockets; and  *)
(* about the codecs, which keep no state. A behaviour of Shims steps one   *)
(* library and leaves the variables of the others alone, so each has an    *)
(* inductive invariant of its own.                                         *)
(***************************************************************************)
EXTENDS Shims, Codecs, SequenceTheorems, TLAPS

-----------------------------------------------------------------------------
(* Wi-Fi.                                                                  *)

(* The environment of the process never changes, so a link stays as real   *)
(* as it was when it was made.                                             *)
WifiInv ==
  /\ LinkIsReal
  /\ wifiEnv \in Environments

(* WiFi.begin connects to what the scan shows, unless told otherwise.      *)
LEMMA OutcomeConnected ==
  ASSUME NEW name, wifiEnv \in Environments, Outcome(name) = "WL_CONNECTED"
  PROVE  wifiEnv.connect = "unset" /\ ~NotFoundByScan(name)
<1>1. /\ wifiEnv.connect \notin {"fail", "no-ssid", "timeout"}
      /\ ~NotFoundByScan(name)
  BY Zenon DEF Outcome
<1>2. QED BY <1>1 DEF Environments

(* begin, softAP, disconnect and mode keep the invariant.                  *)
LEMMA WifiStep == WifiInv /\ WifiNext => WifiInv'
<1> SUFFICES ASSUME WifiInv, WifiNext PROVE WifiInv'
  OBVIOUS
<1> USE DEF WifiInv, LinkIsReal, Listed, Link, NoLink
<1>1. ASSUME NEW name \in Ssids \cup {DefaultSsid}, WifiBegin(name)
      PROVE WifiInv'
  BY <1>1, OutcomeConnected DEF WifiBegin, NotFoundByScan
<1>2. ASSUME NEW name \in Ssids \cup {ApSsid}, SoftAP(name) PROVE WifiInv'
  <2>1. wifiEnv.ap \in {"unset", "fail"}
    BY DEF Environments
  <2>2. QED BY <1>2, <2>1 DEF SoftAP
<1>3. CASE Disconnect
  BY <1>3 DEF Disconnect
<1>4. ASSUME NEW m \in {"OFF", "STA", "AP", "AP_STA"}, SetMode(m)
      PROVE WifiInv'
  BY <1>4 DEF SetMode
<1>5. QED BY <1>1, <1>2, <1>3, <1>4 DEF WifiNext

(* Whatever is called in whatever order, a station that says it is         *)
(* connected is joined to a network the scan lists, and a station or an    *)
(* access point has the name it was given (WiFi.begin, softAP, disconnect, *)
(* mode).                                                                  *)
THEOREM LinksAreReal == Spec => []LinkIsReal
<1>1. Init => WifiInv
  BY DEF Init, WifiInit, WifiInv, LinkIsReal, NoLink, Link
<1>2. WifiInv /\ [Next /\ UNCHANGED focus]_shimVars => WifiInv'
  <2>1. CASE WifiNext
    BY <2>1, WifiStep
  <2>2. CASE UNCHANGED wifiVars
    BY <2>2 DEF wifiVars, WifiInv, LinkIsReal, Listed
  <2>3. QED BY <2>1, <2>2 DEF Next, shimVars
<1>3. WifiInv => LinkIsReal
  BY DEF WifiInv
<1>4. QED BY <1>1, <1>2, <1>3, PTL DEF Spec

-----------------------------------------------------------------------------
(* Stack check.                                                            *)

Usage == [stage : {"none", "created", "checked", "unchecked", "ended"},
          budget : Nat, minimumFree : Nat, warned : BOOLEAN]

StackTypes ==
  /\ mode \in Modes /\ exited \in BOOLEAN
  /\ task \in [StackTasks -> Usage]
  /\ frames \in [StackTasks -> Seq(Nat) \ {<<>>}]
  /\ peak \in [StackTasks -> Nat] /\ reports \in [StackTasks -> Nat]

(* What a task is told agrees with its deepest moment, from the begin of   *)
(* its checks to its deletion.                                             *)
Measured(t) ==
  /\ task[t].stage \in {"created", "none"} \/ mode # "invalid"
  /\ task[t].stage = "created" => peak[t] = 0 /\ reports[t] = 0
  /\ task[t].stage = "checked" => mode # "off"
  /\ task[t].stage = "unchecked" => mode = "off"
  /\ task[t].stage \in {"checked", "ended"} /\ mode # "off" =>
       /\ task[t].minimumFree = Remaining(task[t].budget, peak[t])
       /\ task[t].warned <=> peak[t] > task[t].budget
       /\ reports[t] = IF task[t].warned THEN 1 ELSE 0

(* Nothing is reported but by a checked task, and a report ends the        *)
(* process unless the mode is warn.                                        *)
StackInv ==
  /\ StackTypes
  /\ \A t \in StackTasks : Measured(t)
  /\ \A t \in StackTasks : reports[t] # 0 =>
       mode \in {"unset", "warn", "fail"} /\ (mode # "warn" => exited)
  /\ exited /\ mode # "invalid" => \E t \in StackTasks : reports[t] # 0

(* Returning from a function leaves at least the frame of the task.        *)
LEMMA FrontIsSeq ==
  ASSUME NEW s \in Seq(Nat), Len(s) > 1
  PROVE  Front(s) \in Seq(Nat) \ {<<>>}
<1>1. Len(s) - 1 \in Nat \ {0} /\ Len(s) - 1 <= Len(s)
  OBVIOUS
<1>2. \A i \in 1 .. Len(s) - 1 : s[i] \in Nat
  BY <1>1, ElementOfSeq
<1>3. /\ SubSeq(s, 1, Len(s) - 1) \in Seq(Nat)
      /\ Len(SubSeq(s, 1, Len(s) - 1)) = Len(s) - 1
  BY <1>1, <1>2, SubSeqProperties
<1>4. QED BY <1>1, <1>3 DEF Front

(* simStackBegin writes three fields of a task's usage.                    *)
LEMMA UsageBegun ==
  ASSUME NEW t \in StackTasks, NEW f \in [StackTasks -> Usage], NEW b \in Nat
  PROVE  [f EXCEPT ![t].stage = "checked", ![t].warned = FALSE,
                   ![t].minimumFree = b] \in [StackTasks -> Usage]
  BY DEF Usage

(* Or one, when the mode is off.                                           *)
LEMMA UsageUnchecked ==
  ASSUME NEW t \in StackTasks, NEW f \in [StackTasks -> Usage]
  PROVE  [f EXCEPT ![t].stage = "unchecked"] \in [StackTasks -> Usage]
  BY DEF Usage

(* The hook at a function's entry writes two.                              *)
LEMMA UsageEntered ==
  ASSUME NEW t \in StackTasks, NEW f \in [StackTasks -> Usage],
         NEW b \in Nat, NEW w \in BOOLEAN
  PROVE  [f EXCEPT ![t].minimumFree = b, ![t].warned = w]
           \in [StackTasks -> Usage]
  BY DEF Usage

(* Creation, begin, calls, returns, end and deletion keep the invariant.   *)
LEMMA StackStep == StackInv /\ StackNext => StackInv'
<1> SUFFICES ASSUME StackInv, NEW t \in StackTasks,
                    \/ \E budget \in Budgets : CreateTask(t, budget)
                    \/ BeginTask(t) \/ EndTask(t) \/ DeleteTask(t) \/ Leave(t)
                    \/ \E size \in Frames : Enter(t, size)
             PROVE  StackInv'
  BY DEF StackNext
<1>0. /\ Budgets \subseteq Nat /\ Frames \subseteq Nat \ {0}
      /\ task \in [StackTasks -> Usage]
      /\ frames \in [StackTasks -> Seq(Nat) \ {<<>>}]
      /\ peak \in [StackTasks -> Nat] /\ reports \in [StackTasks -> Nat]
  BY StackAssumption DEF StackInv, StackTypes
<1>i. Measured(t) /\ StackTypes
  BY DEF StackInv
<1>1. ASSUME NEW budget \in Budgets, CreateTask(t, budget) PROVE StackInv'
  <2>1. budget \in Nat
    BY <1>0
  <2>2. task' \in [StackTasks -> Usage]
    BY <1>0, <1>1, <2>1 DEF CreateTask, Usage
  <2>3. frames' \in [StackTasks -> Seq(Nat) \ {<<>>}]
    <3>1. <<0>> \in Seq(Nat) \ {<<>>}
      OBVIOUS
    <3>2. QED BY <1>0, <1>1, <3>1, Zenon DEF CreateTask
  <2>4. peak' \in [StackTasks -> Nat] /\ reports' \in [StackTasks -> Nat]
    BY <1>0, <1>1 DEF CreateTask
  <2>5. Measured(t)'
    BY <1>0, <1>1, <2>1 DEF CreateTask, Measured
  <2>6. \A u \in StackTasks \ {t} : Measured(u)'
    BY <1>0, <1>1 DEF CreateTask, StackInv, Measured
  <2>7. \A u \in StackTasks : Measured(u)'
    BY <2>5, <2>6
  <2>8. \A u \in StackTasks : reports'[u] # 0 => reports[u] # 0
    BY <1>0, <1>1 DEF CreateTask
  <2>9. QED
    BY <1>1, <2>2, <2>3, <2>4, <2>7, <2>8
    DEF CreateTask, StackInv, StackTypes
<1>2. CASE BeginTask(t)
  <2>1. /\ ~exited /\ task[t].stage = "created"
        /\ UNCHANGED <<mode, frames, peak, reports, created>>
        /\ \/ /\ mode = "off" /\ exited' = exited
              /\ task' = [task EXCEPT ![t].stage = "unchecked"]
           \/ mode = "invalid" /\ exited' = TRUE /\ task' = task
           \/ /\ mode # "off" /\ mode # "invalid" /\ exited' = exited
              /\ task' = [task EXCEPT ![t].stage = "checked",
                                      ![t].warned = FALSE,
                                      ![t].minimumFree = task[t].budget]
    BY <1>2, Zenon DEF BeginTask
  <2>2. task' \in [StackTasks -> Usage]
    <3>1. task[t].budget \in Nat
      BY <1>0 DEF Usage
    <3>2. CASE mode = "off"
      <4>1. task' = [task EXCEPT ![t].stage = "unchecked"]
        BY <2>1, <3>2
      <4>2. QED BY <1>0, <4>1, UsageUnchecked, Zenon
    <3>3. CASE mode = "invalid"
      BY <1>0, <2>1, <3>3
    <3>4. CASE mode \notin {"off", "invalid"}
      <4>1. PICK b \in Nat : b = task[t].budget
        BY <3>1
      <4>2. task' = [task EXCEPT ![t].stage = "checked",
                                 ![t].warned = FALSE,
                                 ![t].minimumFree = b]
        BY <2>1, <3>4, <4>1
      <4>3. QED BY <1>0, <4>2, UsageBegun
    <3>5. QED BY <3>2, <3>3, <3>4
  <2>3. /\ mode = "off" => task'[t].stage = "unchecked"
        /\ mode = "invalid" => task' = task
        /\ mode \notin {"off", "invalid"} =>
             /\ task'[t].stage = "checked"
             /\ task'[t].warned = FALSE
             /\ task'[t].minimumFree = task[t].budget
             /\ task'[t].budget = task[t].budget
    BY <1>0, <2>1 DEF Usage
  <2>4. \A u \in StackTasks \ {t} : task'[u] = task[u]
    BY <1>0, <2>1
  <2>5. Measured(t)'
    <3>1. CASE mode = "off"
      BY <1>i, <2>1, <2>3, <3>1 DEF Measured
    <3>2. CASE mode = "invalid"
      BY <1>i, <2>1, <2>3, <3>2 DEF Measured
    <3>3. CASE mode \notin {"off", "invalid"}
      <4>1. task[t].budget \in Nat /\ peak[t] = 0 /\ reports[t] = 0
        BY <1>0, <1>i, <2>1 DEF Usage, Measured
      <4>2. QED BY <2>1, <2>3, <3>3, <4>1 DEF Remaining, Measured
    <3>4. QED BY <3>1, <3>2, <3>3
  <2>6. \A u \in StackTasks \ {t} : Measured(u)'
    BY <2>1, <2>4 DEF StackInv, Measured
  <2>7. \A u \in StackTasks : Measured(u)'
    BY <2>5, <2>6
  <2>8. StackTypes'
    BY <1>i, <2>1, <2>2 DEF StackTypes
  <2>9. QED BY <2>1, <2>7, <2>8 DEF StackInv
<1>3. CASE EndTask(t)
  <2>1. task' \in [StackTasks -> Usage]
    BY <1>0, <1>3 DEF EndTask, Usage
  <2>2. task'[t].stage = "ended"
        /\ task'[t].minimumFree = task[t].minimumFree
        /\ task'[t].warned = task[t].warned
        /\ task'[t].budget = task[t].budget
    BY <1>0, <1>3 DEF EndTask, Usage
  <2>3. \A u \in StackTasks \ {t} : task'[u] = task[u]
    BY <1>0, <1>3 DEF EndTask
  <2>4. QED
    BY <1>3, <2>1, <2>2, <2>3 DEF EndTask, StackInv, StackTypes, Measured
<1>4. CASE DeleteTask(t)
  <2>1. task' \in [StackTasks -> Usage]
    BY <1>0, <1>4 DEF DeleteTask, Usage
  <2>2. task'[t].stage = "none"
    BY <1>0, <1>4 DEF DeleteTask, Usage
  <2>3. \A u \in StackTasks \ {t} : task'[u] = task[u]
    BY <1>0, <1>4 DEF DeleteTask
  <2>4. QED
    BY <1>4, <2>1, <2>2, <2>3 DEF DeleteTask, StackInv, StackTypes, Measured
<1>5. CASE Leave(t)
  <2>1. frames[t] \in Seq(Nat) /\ Len(frames[t]) > 1
    BY <1>0, <1>5 DEF Leave
  <2>2. Front(frames[t]) \in Seq(Nat) \ {<<>>}
    BY <2>1, FrontIsSeq
  <2>3. frames' \in [StackTasks -> Seq(Nat) \ {<<>>}]
    BY <1>0, <1>5, <2>2, Zenon DEF Leave
  <2>4. QED BY <1>5, <2>3 DEF Leave, StackInv, StackTypes, Measured
<1>6. ASSUME NEW size \in Frames, Enter(t, size) PROVE StackInv'
  <2> DEFINE used == Last(frames[t]) + size
             over == task[t].stage = "checked" /\ used > task[t].budget
                     /\ ~task[t].warned
             free == Least(task[t].minimumFree,
                           Remaining(task[t].budget, used))
  <2>1. used \in Nat /\ Append(frames[t], used) \in Seq(Nat) \ {<<>>}
    <3>1. frames[t] \in Seq(Nat) /\ Len(frames[t]) \in 1 .. Len(frames[t])
      BY <1>0
    <3>2. Last(frames[t]) \in Nat
      BY <3>1, ElementOfSeq DEF Last
    <3>3. used \in Nat
      BY <1>0, <3>2
    <3> HIDE DEF used
    <3>4. QED BY <3>1, <3>3, AppendProperties
  <2>2. /\ ~exited /\ task[t].stage \in {"checked", "unchecked"}
        /\ frames' = [frames EXCEPT ![t] = Append(@, used)]
        /\ peak' = [peak EXCEPT ![t] = IF used > @ THEN used ELSE @]
        /\ task' = IF task[t].stage = "unchecked" THEN task
                   ELSE [task EXCEPT ![t].minimumFree = free,
                                     ![t].warned = @ \/ over]
        /\ reports' = IF over THEN [reports EXCEPT ![t] = @ + 1] ELSE reports
        /\ exited' = (over /\ mode # "warn")
        /\ mode' = mode
    BY <1>6 DEF Enter
  <2>3. free \in Nat
    BY <1>0, <2>1 DEF Least, Remaining, Usage
  <2>4. frames' \in [StackTasks -> Seq(Nat) \ {<<>>}]
    BY <1>0, <2>1, <2>2, Zenon
  <2> HIDE DEF used, free
  <2>5. /\ task' \in [StackTasks -> Usage] /\ exited' \in BOOLEAN
        /\ peak' \in [StackTasks -> Nat] /\ reports' \in [StackTasks -> Nat]
    <3>1. task' \in [StackTasks -> Usage]
      <4>1. PICK w \in BOOLEAN : w = (task[t].warned \/ over)
        OBVIOUS
      <4>2. \/ task' = task
            \/ task' = [task EXCEPT ![t].minimumFree = free,
                                     ![t].warned = w]
        BY <2>2, <4>1
      <4>3. [task EXCEPT ![t].minimumFree = free, ![t].warned = w]
              \in [StackTasks -> Usage]
        BY <1>0, <2>3, UsageEntered, Zenon
      <4>4. QED BY <1>0, <4>2, <4>3, Zenon
    <3>2. peak' \in [StackTasks -> Nat] /\ reports' \in [StackTasks -> Nat]
      BY <1>0, <2>1, <2>2
    <3>3. QED BY <2>2, <3>1, <3>2
  <2>6. /\ task[t].stage = "checked" =>
             /\ task'[t].stage = "checked"
             /\ task'[t].budget = task[t].budget
             /\ task'[t].minimumFree = free
             /\ task'[t].warned = (task[t].warned \/ over)
        /\ task[t].stage = "unchecked" => task'[t] = task[t]
        /\ peak'[t] = (IF used > peak[t] THEN used ELSE peak[t])
        /\ reports'[t] = (IF over THEN reports[t] + 1 ELSE reports[t])
    BY <1>0, <2>1, <2>2, <2>3 DEF Usage
  <2>7. Measured(t)'
    <3>1. CASE task[t].stage = "unchecked"
      BY <1>0, <1>i, <2>2, <2>6, <3>1 DEF Usage, Measured
    <3>2. CASE task[t].stage = "checked"
      BY <1>0, <1>i, <2>1, <2>2, <2>5, <2>6, <3>2
      DEF Least, Remaining, free, Usage, Measured
    <3>3. QED BY <2>2, <3>1, <3>2
  <2>8. \A u \in StackTasks \ {t} :
          /\ task'[u] = task[u] /\ peak'[u] = peak[u]
          /\ reports'[u] = reports[u]
    BY <1>0, <2>2
  <2>9. \A u \in StackTasks : Measured(u)'
    <3>1. ASSUME NEW u \in StackTasks \ {t} PROVE Measured(u)'
      <4>1. Measured(u) /\ mode' = mode
        BY <2>2 DEF StackInv
      <4>2. QED BY <2>8, <4>1 DEF Measured
    <3>2. QED BY <2>7, <3>1
  <2>10. over => reports'[t] # 0 /\ mode \in {"unset", "warn", "fail"}
    BY <1>0, <1>i, <2>2, <2>6 DEF Modes, StackTypes, Measured
  <2>11. \A u \in StackTasks : reports'[u] # 0 =>
          mode' \in {"unset", "warn", "fail"} /\ (mode' # "warn" => exited')
    BY <2>2, <2>6, <2>8, <2>10 DEF StackInv
  <2>12. exited' => over
    BY <2>2
  <2>13. QED
    BY <1>i, <2>2, <2>4, <2>5, <2>9, <2>10, <2>11, <2>12
    DEF StackInv, StackTypes
<1>7. QED BY <1>1, <1>2, <1>3, <1>4, <1>5, <1>6

(* For any budgets, frames and number of tasks the free space kept is what *)
(* the deepest moment left, an overflow is reported once, and the process  *)
(* ends as the mode says (__cyg_profile_func_enter, simStackBegin,         *)
(* simStackEnd).                                                           *)
THEOREM StacksAreReported == Spec => []StackReported
<1>1. Init => StackInv
  <2> SUFFICES ASSUME StackInit PROVE StackInv
    BY DEF Init
  <2> USE DEF StackInit
  <2>1. task \in [StackTasks -> Usage]
    BY DEF Usage
  <2>2. frames \in [StackTasks -> Seq(Nat) \ {<<>>}]
    <3>1. <<0>> \in Seq(Nat) \ {<<>>}
      OBVIOUS
    <3>2. QED BY <3>1, Zenon
  <2>3. QED BY <2>1, <2>2 DEF StackInv, StackTypes, Measured
<1>2. StackInv /\ [Next /\ UNCHANGED focus]_shimVars => StackInv'
  <2>1. CASE StackNext
    BY <2>1, StackStep
  <2>2. CASE UNCHANGED stackVars
    BY <2>2 DEF stackVars, StackInv, StackTypes, Measured
  <2>3. QED BY <2>1, <2>2 DEF Next, shimVars
<1>3. StackInv => StackReported
  BY DEF StackInv, StackTypes, Usage, Measured, StackReported, HighWaterMark,
         Modes
<1>4. QED BY <1>1, <1>2, <1>3, PTL DEF Spec

-----------------------------------------------------------------------------
(* Image decoders.                                                         *)

Denoms == {1, 2, 4, 8}
Decoded == [of : ImageFiles, height : Nat \ {0}]

(* A file is open only while its bytes are read and decoded; rows are      *)
(* drawn from the top, denom by denom.                                     *)
ImageInv ==
  /\ kind \in {"jpeg", "png"}
  /\ call.pc \in {"idle", "read", "stb", "draw"}
  /\ call.pc \in {"read", "stb"} =>
       /\ call \in [pc : {"read", "stb"}, left : Nat, got : Nat]
       /\ source \in ImageFiles /\ handles = {source} /\ image = NoImage
  /\ call.pc \in {"idle", "draw"} => handles = {}
  /\ image # NoImage => image \in Decoded /\ image.of = source
  /\ drawn \in [rows : Seq(Nat), denom : Denoms]
  /\ call.pc = "draw" =>
       /\ call \in [pc : {"draw"}, y : Nat] /\ image # NoImage
       /\ call.y = Len(drawn.rows)
       /\ call.y < Scaled(image.height, drawn.denom)
       /\ \A k \in 1 .. Len(drawn.rows) : drawn.rows[k] = (k - 1) * drawn.denom
  /\ call = Idle("failed") /\ kind = "jpeg" => lastError = -1
  /\ call = Idle("decoded") /\ image # NoImage =>
       Covers(drawn.rows, drawn.denom, image.height)

(* Rounding up loses no row: each output row has a source row, and the     *)
(* last one is less than denom rows above the bottom.                      *)
LEMMA ScaledRows ==
  ASSUME NEW h \in Nat \ {0}, NEW d \in Denoms
  PROVE  /\ Scaled(h, d) \in Nat \ {0}
         /\ \A y \in Nat : y < Scaled(h, d) =>
              /\ y * d \in Nat /\ y * d <= h - 1
              /\ y + 1 = Scaled(h, d) => y * d \in h - d .. h - 1
<1>1. CASE d = 1
  BY <1>1 DEF Scaled
<1>2. CASE d = 2
  BY <1>2 DEF Scaled
<1>3. CASE d = 4
  BY <1>3 DEF Scaled
<1>4. CASE d = 8
  BY <1>4 DEF Scaled
<1>5. QED BY <1>1, <1>2, <1>3, <1>4 DEF Denoms

(* open, its reads, decode, its rows and close keep the invariant.         *)
LEMMA ImageStep == ImageInv /\ ImageNext => ImageInv'
<1> SUFFICES ASSUME ImageInv, ImageNext PROVE ImageInv'
  OBVIOUS
<1>1. ASSUME NEW f \in ImageFiles, OpenImage(f) PROVE ImageInv'
  <2>1. NoRows \in [rows : Seq(Nat), denom : Denoms]
    BY DEF NoRows, Denoms
  <2>2. CASE Fails /\ UNCHANGED handles
    BY <1>1, <2>1, <2>2 DEF ImageInv, OpenImage, Fails, Idle
  <2>3. ASSUME NEW size \in 1 .. MaxBytes,
               call' = [pc |-> "read", left |-> size, got |-> 0],
               handles' = handles \cup {f}
        PROVE  ImageInv'
    <3>1. size \in Nat
      BY ImageAssumption
    <3>2. QED BY <1>1, <2>1, <2>3, <3>1 DEF ImageInv, OpenImage, Idle
  <2>4. QED BY <1>1, <2>2, <2>3 DEF OpenImage
<1>2. CASE ReadImage
  <2>1. call \in [pc : {"read", "stb"}, left : Nat, got : Nat]
    BY <1>2 DEF ImageInv, ReadImage
  <2>2. call' \in [pc : {"read", "stb"}, left : Nat, got : Nat]
    <3>1. ASSUME NEW n \in 1 .. call.left,
                 call' = [call EXCEPT !.left = @ - n, !.got = @ + n,
                            !.pc = IF n = call.left THEN "stb" ELSE "read"]
          PROVE  call' \in [pc : {"read", "stb"}, left : Nat, got : Nat]
      <4>1. call.left - n \in Nat /\ call.got + n \in Nat
        BY <2>1
      <4>2. QED BY <2>1, <3>1, <4>1
    <3>2. CASE call' = [call EXCEPT !.pc = "stb"]
      BY <2>1, <3>2
    <3>3. QED BY <1>2, <3>1, <3>2 DEF ReadImage
  <2>3. call' # Idle("decoded") /\ call' # Idle("failed")
    BY <2>2 DEF Idle
  <2>4. QED BY <1>2, <2>2, <2>3 DEF ImageInv, ReadImage
<1>3. CASE DecodeBytes
  <2>1. handles' = {}
    BY <1>3 DEF ImageInv, DecodeBytes
  <2>2. CASE Fails /\ UNCHANGED image
    BY <1>3, <2>1, <2>2 DEF ImageInv, DecodeBytes, Fails, Idle
  <2>3. ASSUME NEW h \in 1 .. MaxHeight,
               image' = [of |-> source, height |-> h], call' = Idle("ok")
        PROVE  ImageInv'
    <3>1. h \in Nat \ {0}
      BY ImageAssumption
    <3>2. QED
      BY <1>3, <2>1, <2>3, <3>1 DEF ImageInv, DecodeBytes, Idle, Decoded
  <2>4. QED BY <1>3, <2>2, <2>3 DEF DecodeBytes
<1>4. CASE CloseImage
  BY <1>4 DEF ImageInv, CloseImage
<1>5. CASE DrawRow
  <2> DEFINE h == image.height
             d == drawn.denom
             rows == drawn.rows
             y == call.y
  <2>1. /\ h \in Nat \ {0} /\ d \in Denoms /\ rows \in Seq(Nat)
        /\ y \in Nat /\ y = Len(rows) /\ y < Scaled(h, d) /\ image # NoImage
        /\ \A k \in 1 .. Len(rows) : rows[k] = (k - 1) * d
        /\ call \in [pc : {"draw"}, y : Nat]
        /\ drawn \in [rows : Seq(Nat), denom : Denoms]
    BY <1>5 DEF ImageInv, DrawRow, Decoded
  <2>2. y * d <= h - 1 /\ y * d \in Nat
    <3> HIDE DEF y, d, h
    <3>1. QED BY <2>1, ScaledRows
  <2>3. SourceRow = y * d
    <3>1. \/ y * d < h - 1 /\ SourceRow = y * d
          \/ ~(y * d < h - 1) /\ SourceRow = h - 1
      BY DEF SourceRow
    <3> HIDE DEF y, d, h
    <3>2. QED BY <2>1, <2>2, <3>1
  <2>4. drawn' = [rows |-> Append(rows, y * d), denom |-> d]
    BY <1>5, <2>1, <2>3 DEF DrawRow
  <2> DEFINE more == Append(rows, y * d)
  <2>5. /\ more \in Seq(Nat) /\ Len(more) = y + 1
        /\ \A k \in 1 .. y + 1 : more[k] = (k - 1) * d
    <3>1. /\ more \in Seq(Nat) /\ Len(more) = Len(rows) + 1
          /\ \A k \in 1 .. Len(rows) : more[k] = rows[k]
          /\ more[Len(rows) + 1] = y * d
      BY <2>1, <2>2, AppendProperties
    <3>2. QED BY <2>1, <3>1
  <2>6. drawn' \in [rows : Seq(Nat), denom : Denoms]
    BY <2>1, <2>4, <2>5
  <2> HIDE DEF more
  <2>7. CASE Fails
    BY <1>5, <2>1, <2>6, <2>7 DEF ImageInv, DrawRow, Fails, Idle
  <2>8. ASSUME y + 1 = Scaled(h, d), call' = Idle("decoded") PROVE ImageInv'
    <3>1. more[y + 1] \in h - d .. h - 1
      <4> HIDE DEF y, d, h
      <4>1. y * d \in h - d .. h - 1
        BY <2>1, <2>8, ScaledRows
      <4>2. more[y + 1] = y * d
        <5>1. y + 1 \in 1 .. y + 1 /\ (y + 1) - 1 = y
          BY <2>1
        <5>2. QED BY <2>5, <5>1
      <4>3. QED BY <4>1, <4>2
    <3>2. Covers(more, d, h)
      <4>1. y + 1 \in 1 .. Len(more)
        BY <2>1, <2>5
      <4>2. QED BY <2>5, <3>1, <4>1 DEF Covers
    <3>3. drawn'.rows = more /\ drawn'.denom = d /\ image' = image
      BY <1>5, <2>4 DEF DrawRow, more
    <3>4. Covers(drawn.rows, drawn.denom, image.height)'
      BY <3>2, <3>3 DEF Covers
    <3>5. QED BY <1>5, <2>6, <2>8, <3>4 DEF ImageInv, DrawRow, Idle
  <2>9. ASSUME y + 1 # Scaled(h, d), call' = [call EXCEPT !.y = @ + 1]
        PROVE  ImageInv'
    <3>1. call' \in [pc : {"draw"}, y : Nat] /\ call'.y = y + 1
      BY <2>1, <2>9
    <3>2. y + 1 < Scaled(h, d)
      BY <2>1, <2>9, ScaledRows
    <3>3. drawn'.rows = more /\ drawn'.denom = d /\ image' = image
      BY <1>5, <2>4 DEF DrawRow, more
    <3>4. call' # Idle("decoded") /\ call' # Idle("failed")
      BY <3>1 DEF Idle
    <3>5. QED
      BY <1>5, <2>1, <2>5, <2>6, <3>1, <3>2, <3>3, <3>4 DEF ImageInv, DrawRow
  <2>10. QED BY <1>5, <2>7, <2>8, <2>9 DEF DrawRow
<1>6. ASSUME NEW denom \in Denominators, Decode(denom) PROVE ImageInv'
  <2>1. denom \in Denoms
    BY DEF Denominators, Denoms
  <2>2. drawn' \in [rows : Seq(Nat), denom : Denoms]
    BY <1>6, <2>1 DEF Decode
  <2>3. CASE Fails
    BY <1>6, <2>2, <2>3 DEF ImageInv, Decode, Fails, Idle
  <2>4. ASSUME image # NoImage, ~Fails PROVE ImageInv'
    <3>1. image.height \in Nat \ {0}
      BY <2>4 DEF ImageInv, Decoded
    <3>2. 0 < Scaled(image.height, denom)
      BY <2>1, <3>1, ScaledRows
    <3>3. call' = [pc |-> "draw", y |-> 0]
      BY <1>6, <2>4, <3>2 DEF Decode
    <3>4. drawn'.rows = <<>> /\ drawn'.denom = denom
      BY <1>6 DEF Decode
    <3>5. QED BY <1>6, <2>2, <2>4, <3>2, <3>3, <3>4 DEF ImageInv, Decode, Idle
  <2>5. QED BY <1>6, <2>3, <2>4 DEF Decode
<1>7. QED BY <1>1, <1>2, <1>3, <1>4, <1>5, <1>6 DEF ImageNext

(* For images of any height and any order of calls and failures: no file   *)
(* stays open, and a decode that succeeds has drawn the whole image of the *)
(* last open (JPEGDEC, PNG).                                               *)
THEOREM ImagesAreDecoded == Spec => []DecodesWhole
<1>1. Init => ImageInv
  BY DEF Init, ImageInit, ImageInv, Idle, NoRows, Denoms
<1>2. ImageInv /\ [Next /\ UNCHANGED focus]_shimVars => ImageInv'
  <2>1. CASE ImageNext
    BY <2>1, ImageStep
  <2>2. CASE UNCHANGED imageVars
    BY <2>2 DEF imageVars, ImageInv
  <2>3. QED BY <2>1, <2>2 DEF Next, shimVars
<1>3. ImageInv => DecodesWhole
  BY DEF ImageInv, DecodesWhole
<1>4. QED BY <1>1, <1>2, <1>3, PTL DEF Spec

-----------------------------------------------------------------------------
(* HTTP clients.                                                           *)

MockRoots == {Nothing} \cup SUBSET Fixtures

(* An answer to this request: typed, and each piece is what was asked for. *)
Honest(a, url, headers, login) ==
  /\ a.ok \in BOOLEAN /\ a.status \in Nat /\ a.body \in Seq(Pieces)
  /\ \A i \in DOMAIN a.body : IsAsked(url, a.body[i], headers, login)

(* The first n elements of a sequence are a prefix of it, and all of it    *)
(* only when n is its length.                                              *)
LEMMA BeginningOf ==
  ASSUME NEW S, NEW s \in Seq(S), NEW n \in 0 .. Len(s)
  PROVE  /\ SubSeq(s, 1, n) \in Seq(S) /\ Len(SubSeq(s, 1, n)) = n
         /\ IsPrefix(SubSeq(s, 1, n), s)
         /\ SubSeq(s, 1, n) = s <=> n = Len(s)
<1>1. /\ n \in Int /\ 1 \in Int /\ Len(s) \in Nat
      /\ \A i \in 1 .. n : s[i] \in S
  BY ElementOfSeq
<1>2. SubSeq(s, 1, n) \in Seq(S) /\ Len(SubSeq(s, 1, n)) = n
  BY <1>1, SubSeqProperties
<1>3. SubSeq(SubSeq(s, 1, n), 1, n) = SubSeq(s, 1, n)
  BY <1>2, SubSeqFull
<1>4. IsPrefix(SubSeq(s, 1, n), s)
  BY <1>1, <1>2, <1>3 DEF IsPrefix
<1>5. SubSeq(s, 1, n) = s <=> n = Len(s)
  BY <1>2, SubSeqFull
<1>6. QED BY <1>2, <1>4, <1>5

(* A body cut short holds pieces of its resource and of no other.          *)
LEMMA BodyOfResource ==
  ASSUME NEW r \in Resources, NEW k \in 0 .. 2
  PROVE  /\ Body(r) \in Seq(Pieces) /\ Len(Body(r)) = 2
         /\ SubSeq(Body(r), 1, k) \in Seq(Pieces)
         /\ \A i \in DOMAIN Body(r) : Body(r)[i].of = r
         /\ \A i \in DOMAIN SubSeq(Body(r), 1, k) :
              SubSeq(Body(r), 1, k)[i].of = r
<1> DEFINE b == Body(r)
<1>1. /\ [of |-> r, part |-> 1] \in Pieces /\ [of |-> r, part |-> 2] \in Pieces
  BY DEF Pieces
<1>2. b \in Seq(Pieces) /\ Len(b) = 2 /\ \A i \in 1 .. 2 : b[i].of = r
  BY <1>1 DEF Body
<1> HIDE DEF b
<1>3. /\ k \in Int /\ k \in 0 .. Len(b)
      /\ \A i \in 1 .. k : b[i] \in Pieces
  <2>1. \A i \in 1 .. Len(b) : b[i] \in Pieces
    BY <1>2, ElementOfSeq
  <2>2. QED BY <1>2, <2>1
<1>4. /\ SubSeq(b, 1, k) \in Seq(Pieces) /\ Len(SubSeq(b, 1, k)) = k
      /\ \A i \in 1 .. k : SubSeq(b, 1, k)[i] = b[i]
  BY <1>3, SubSeqProperties
<1>5. DOMAIN b = 1 .. 2 /\ DOMAIN SubSeq(b, 1, k) = 1 .. k
  BY <1>2, <1>4, LenProperties
<1>6. QED BY <1>2, <1>4, <1>5 DEF b

(* Failures and 404 have no pieces.                                        *)
LEMMA EmptyIsHonest ==
  ASSUME NEW url, NEW headers, NEW login
  PROVE  /\ Honest(NoAnswer, url, headers, login)
         /\ Honest(NotFound, url, headers, login)
<1>1. <<>> \in Seq(Pieces) /\ DOMAIN <<>> = {}
  OBVIOUS
<1>2. QED BY <1>1 DEF Honest, Answer, NoAnswer, NotFound

(* A file is an answer when it is the one asked for, or has its name while *)
(* the tree does not decide.                                               *)
LEMMA FoundIsHonest ==
  ASSUME NEW from \in {"mock", "file"}, NEW path \in Seq(STRING), NEW url,
         NEW headers, NEW login,
         from = "mock" =>
           \/ path = url.path
           \/ Last(path) = Last(url.path) /\ ~Authoritative(url.path)
  PROVE  Honest(Found(from, path), url, headers, login)
<1> DEFINE r == Resource(from, path, {}, NoLogin)
<1>1. r \in Resources /\ r.from = from /\ r.path = path
  BY DEF Resource, Resources
<1>2. Found(from, path) = [ok |-> TRUE, status |-> 200, body |-> Body(r)]
  BY DEF Found, Answer
<1>3. Body(r) \in Seq(Pieces) /\ \A i \in DOMAIN Body(r) : Body(r)[i].of = r
  BY <1>1, BodyOfResource
<1> HIDE DEF r
<1>4. ASSUME NEW i \in DOMAIN Body(r)
      PROVE  IsAsked(url, Body(r)[i], headers, login)
  BY <1>1, <1>3 DEF IsAsked, IsFixtureOf, Authoritative
<1>5. QED BY <1>2, <1>3, <1>4 DEF Honest

(* fetchFromMockRoot: by path, by name, or not at all.                     *)
LEMMA MockIsHonest ==
  ASSUME mock \in MockRoots, NEW url \in Urls, NEW headers, NEW login,
         NEW a \in MockAnswers(url)
  PROVE  Honest(a, url, headers, login)
<1> DEFINE name == Last(url.path)
<1>1. CASE a = NoAnswer \/ a = NotFound
  BY <1>1, EmptyIsHonest
<1>2. ASSUME mock # Nothing, IsPath(url), a # NoAnswer, a # NotFound
      PROVE  Honest(a, url, headers, login)
  <2>1. /\ mock \subseteq Seq(STRING) /\ url.path \in Seq(STRING)
        /\ url.path # <<>> /\ name \in STRING
    <3>1. mock \subseteq Seq(STRING) /\ url.path \in Seq(STRING)
      BY <1>2, HttpAssumption DEF MockRoots
    <3>2. url.path # <<>>
      BY <1>2 DEF IsPath
    <3>3. Len(url.path) \in 1 .. Len(url.path)
      BY <3>1, <3>2
    <3>4. QED BY <3>1, <3>2, <3>3, ElementOfSeq DEF Last
  <2>2. PICK p \in mock :
          /\ a = Found("mock", p)
          /\ \/ p = url.path
             \/ /\ ~Authoritative(url.path)
                /\ p = <<name>> \/ p \in NamedEntries(name)
    <3>1. CASE url.path \in mock
      <4>1. a = Found("mock", url.path)
        BY <1>2, <3>1 DEF MockAnswers
      <4>2. \E p \in mock : a = Found("mock", p) /\ p = url.path
        BY <3>1, <4>1, Zenon
      <4>3. QED BY <4>2, Zenon
    <3>2. CASE url.path \notin mock /\ ~Authoritative(url.path)
                /\ <<name>> \in mock
      BY <1>2, <3>2 DEF MockAnswers
    <3>3. CASE url.path \notin mock /\ ~Authoritative(url.path)
                /\ <<name>> \notin mock
      BY <1>2, <3>3 DEF MockAnswers
    <3>4. QED BY <1>2, <3>1, <3>2, <3>3 DEF MockAnswers
  <2>3. p = url.path \/ (Last(p) = name /\ ~Authoritative(url.path))
    <3>1. Last(<<name>>) = name
      BY DEF Last
    <3>2. p \in NamedEntries(name) => Last(p) = name
      BY DEF NamedEntries
    <3>3. QED BY <2>2, <3>1, <3>2
  <2>4. QED BY <2>1, <2>2, <2>3, FoundIsHonest
<1>3. QED BY <1>1, <1>2 DEF MockAnswers

(* The mock root, a file URL or curl: each answers what was asked.         *)
LEMMA FetchIsHonest ==
  ASSUME mock \in MockRoots, NEW url \in Urls, NEW headers \in SUBSET Headers,
         NEW login \in {Login, NoLogin}, NEW a \in Fetch(url, headers, login)
  PROVE  Honest(a, url, headers, login)
<1>1. \/ a \in MockAnswers(url) \/ a \in FileAnswers(url)
      \/ a \in CurlAnswers(url, headers, login)
  BY DEF Fetch
<1>2. url.path \in Seq(STRING)
  BY HttpAssumption
<1>3. CASE a \in FileAnswers(url)
  <2>1. Honest(Found("file", url.path), url, headers, login)
    BY <1>2, FoundIsHonest
  <2>2. QED BY <1>3, <2>1, EmptyIsHonest DEF FileAnswers
<1>4. CASE a \in CurlAnswers(url, headers, login)
  <2> DEFINE r == Resource("net", url.path, headers, login)
  <2>1. r \in Resources /\ r.from = "net" /\ r.path = url.path
        /\ r.headers = headers /\ r.login = login
    BY <1>2 DEF Resource, Resources
  <2> DEFINE OfR(s) == s \in Seq(Pieces) /\ \A i \in DOMAIN s : s[i].of = r
  <2>2. ASSUME NEW k \in 0 .. 2 PROVE OfR(SubSeq(Body(r), 1, k))
    BY <2>1, BodyOfResource
  <2> HIDE DEF r
  <2>3. ASSUME NEW code \in {0, 200, 404}, NEW b \in Seq(Pieces),
               \A i \in DOMAIN b : b[i].of = r
        PROVE  Honest(Fetched(code, b), url, headers, login)
    <3> DEFINE ok == code > 0 \/ b # <<>>
    <3>1. Fetched(code, b) = [ok |-> ok, status |-> code, body |-> b]
      BY DEF Fetched, Answer
    <3>2. ok \in BOOLEAN /\ code \in Nat
      OBVIOUS
    <3> HIDE DEF ok
    <3>3. ASSUME NEW i \in DOMAIN b PROVE IsAsked(url, b[i], headers, login)
      BY <2>1, <2>3 DEF IsAsked
    <3>4. QED BY <3>1, <3>2, <3>3 DEF Honest
  <2>4. Len(Body(r)) = 2
    BY DEF Body
  <2>5. PICK code \in {0, 200, 404}, k \in 0 .. Len(Body(r)) :
          a = Fetched(code, SubSeq(Body(r), 1, k))
    BY <1>4 DEF CurlAnswers, r
  <2>6. k \in 0 .. 2
    BY <2>4
  <2> DEFINE b == SubSeq(Body(r), 1, k)
  <2>7. a = Fetched(code, b)
    BY <2>5
  <2> HIDE DEF OfR
  <2>8. OfR(b)
    BY <2>2, <2>6
  <2> HIDE DEF b
  <2>9. QED BY <2>3, <2>7, <2>8 DEF OfR
<1>5. QED BY <1>1, <1>3, <1>4, MockIsHonest

Client == [url : Urls \cup {Nothing}, headers : SUBSET Headers,
           login : {Login, NoLogin}, status : Nat, body : Seq(Pieces),
           stream : Streams \cup {Nothing}]

(* What was streamed is the beginning of the body the client holds, and    *)
(* the client remembers just the headers and the login it was given.       *)
ClientInv ==
  /\ mock \in MockRoots
  /\ http \in Client
  /\ given = [headers |-> http.headers, login |-> http.login]
  /\ http.stream = Nothing => streamed = <<>>
  /\ http.stream # Nothing =>
       /\ http.stream.text = http.body /\ http.stream.at <= Len(http.body)
       /\ streamed = SubSeq(http.body, 1, http.stream.at)
  /\ \A i \in DOMAIN http.body :
       IsAsked(http.url, http.body[i], http.headers, http.login)

(* The calls of HTTPClient keep the invariant.                             *)
LEMMA ClientStep == ClientInv /\ ClientNext => ClientInv'
<1> SUFFICES ASSUME ClientInv, ClientNext PROVE ClientInv'
  OBVIOUS
<1>1. /\ http \in Client /\ mock \in MockRoots
      /\ http.stream # Nothing => http.stream \in Streams
  BY DEF ClientInv, Client
<1>2. mock' = mock
  BY DEF ClientNext, Begin, AddHeader, SetAuthorization, PerformRequest,
         ReadStream, End
<1>3. ASSUME NEW url, NEW piece, NEW headers, NEW login
      PROVE  IsAsked(url, piece, headers, login)' =
             IsAsked(url, piece, headers, login)
  BY <1>2 DEF IsAsked, IsFixtureOf, MockDirs
<1>e. <<>> \in Seq(Pieces) /\ DOMAIN <<>> = {}
  OBVIOUS
<1>4. ASSUME NEW url \in Urls, Begin(url) PROVE ClientInv'
  <2>1. http' = [http EXCEPT !.url = url, !.body = <<>>, !.stream = Nothing,
                             !.status = 0]
    BY <1>4 DEF Begin
  <2>2. /\ http' \in Client
        /\ http'.headers = http.headers /\ http'.login = http.login
        /\ http'.stream = Nothing /\ http'.body = <<>>
    BY <1>1, <1>e, <2>1 DEF Client
  <2>3. QED BY <1>1, <1>2, <1>4, <1>e, <2>2 DEF ClientInv, Begin
<1>5. ASSUME NEW h \in Headers, AddHeader(h) PROVE ClientInv'
  <2>1. /\ http' \in Client
        /\ http'.headers = http.headers \cup {h} /\ http'.login = http.login
        /\ http'.stream = http.stream /\ http'.body = http.body
        /\ http'.url = http.url
    BY <1>1, <1>5 DEF AddHeader, Client
  <2>2. given' = [headers |-> http'.headers, login |-> http'.login]
    BY <1>5, <2>1 DEF AddHeader, ClientInv
  <2>3. \A i \in DOMAIN http.body :
          IsAsked(http.url, http.body[i], http'.headers, http'.login)
    BY <2>1 DEF ClientInv, IsAsked
  <2>4. QED
    BY <1>1, <1>2, <1>3, <1>5, <2>1, <2>2, <2>3 DEF ClientInv, AddHeader
<1>6. CASE SetAuthorization
  <2>1. /\ http' \in Client
        /\ http'.headers = http.headers /\ http'.login = Login
        /\ http'.stream = http.stream /\ http'.body = http.body
        /\ http'.url = http.url
    BY <1>1, <1>6 DEF SetAuthorization, Client
  <2>2. given' = [headers |-> http'.headers, login |-> http'.login]
    BY <1>6, <2>1 DEF SetAuthorization, ClientInv
  <2>3. \A i \in DOMAIN http.body :
          IsAsked(http.url, http.body[i], http'.headers, http'.login)
    BY <1>1, <2>1 DEF ClientInv, IsAsked, Client
  <2>4. QED
    BY <1>1, <1>2, <1>3, <1>6, <2>1, <2>2, <2>3
    DEF ClientInv, SetAuthorization
<1>7. CASE PerformRequest
  <2>1. http.url \in Urls /\ http.headers \in SUBSET Headers
        /\ http.login \in {Login, NoLogin}
    BY <1>1, <1>7 DEF PerformRequest, Client
  <2>2. PICK a \in Fetch(http.url, http.headers, http.login) :
          http' = [http EXCEPT !.status = a.status, !.body = a.body,
                               !.stream = Nothing]
    BY <1>7 DEF PerformRequest
  <2>3. Honest(a, http.url, http.headers, http.login)
    BY <1>1, <2>1, FetchIsHonest
  <2>4. /\ http' \in Client
        /\ http'.headers = http.headers /\ http'.login = http.login
        /\ http'.stream = Nothing /\ http'.body = a.body
        /\ http'.url = http.url
    BY <1>1, <2>2, <2>3 DEF Client, Honest
  <2>5. QED
    BY <1>1, <1>2, <1>3, <1>7, <2>3, <2>4
    DEF ClientInv, PerformRequest, Honest
<1>8. CASE ReadStream
  <2> DEFINE s == Stream(http.stream)
             b == http.body
  <2>1. /\ s \in Streams /\ s.text = b /\ b \in Seq(Pieces)
        /\ s.at \in 0 .. Len(b) /\ streamed = SubSeq(b, 1, s.at)
    <3>1. b \in Seq(Pieces)
      BY <1>1 DEF Client
    <3>2. CASE http.stream = Nothing
      <4>1. s = [text |-> b, at |-> 0] /\ streamed = <<>>
        BY <3>2 DEF Stream, ClientInv
      <4>2. SubSeq(b, 1, 0) = <<>>
        BY SubSeqEmpty
      <4>3. QED BY <3>1, <4>1, <4>2 DEF Streams
    <3>3. CASE http.stream # Nothing
      BY <1>1, <3>1, <3>3 DEF Stream, ClientInv, Streams
    <3>4. QED BY <3>2, <3>3
  <2>2. /\ s.at < Len(b) /\ streamed' = Append(streamed, b[s.at + 1])
        /\ http' = [http EXCEPT !.stream = [s EXCEPT !.at = @ + 1]]
        /\ given' = given
    BY <1>8, <2>1 DEF ReadStream
  <2> HIDE DEF s
  <2>3. PICK t \in Streams : t = [s EXCEPT !.at = @ + 1]
                             /\ t.text = b /\ t.at = s.at + 1
    <3>1. [s EXCEPT !.at = @ + 1] = [text |-> s.text, at |-> s.at + 1]
      BY <2>1 DEF Streams
    <3>2. [text |-> s.text, at |-> s.at + 1] \in Streams
      BY <2>1 DEF Streams
    <3>3. QED BY <2>1, <3>1, <3>2
  <2>4. /\ http' \in Client
        /\ http'.headers = http.headers /\ http'.login = http.login
        /\ http'.stream = t /\ http'.body = b /\ http'.url = http.url
    BY <1>1, <2>2, <2>3 DEF Client
  <2>5. streamed' = SubSeq(b, 1, s.at + 1)
    <3> DEFINE n == s.at + 1
    <3>1. n \in 1 .. Len(b) /\ n - 1 = s.at /\ 1 \in 1 .. Len(b)
      BY <2>1, <2>2
    <3> HIDE DEF n, b
    <3>2. SubSeq(b, 1, n) = SubSeq(b, 1, n - 1) \o <<b[n]>>
      BY <2>1, <3>1, SubSeqRecursiveSecond
    <3>3. streamed \in Seq(Pieces) /\ b[n] \in Pieces
      BY <2>1, <3>1, BeginningOf, ElementOfSeq
    <3>4. Append(streamed, b[n]) = streamed \o <<b[n]>>
      BY <3>3, AppendIsConcat
    <3>5. QED BY <2>1, <2>2, <3>1, <3>2, <3>4 DEF n
  <2>6. t # Nothing
    BY <2>3, HttpAssumption
  <2>7. /\ http'.stream # Nothing /\ http'.stream.text = http'.body
        /\ http'.stream.at <= Len(http'.body)
        /\ streamed' = SubSeq(http'.body, 1, http'.stream.at)
    <3>1. http'.stream # Nothing /\ http'.stream.text = http'.body
      BY <2>3, <2>4, <2>6
    <3>2. http'.stream.at <= Len(http'.body)
      <4>1. t.at <= Len(b)
        BY <2>1, <2>2, <2>3
      <4>2. QED BY <2>4, <4>1, Zenon
    <3>3. streamed' = SubSeq(http'.body, 1, http'.stream.at)
      BY <2>3, <2>4, <2>5, Zenon
    <3>4. QED BY <3>1, <3>2, <3>3
  <2>8. QED BY <1>1, <1>2, <1>3, <2>2, <2>4, <2>7 DEF ClientInv
<1>9. CASE End
  <2>1. http' \in Client
    BY <1>9, <1>e DEF End, NewClient, Client
  <2>2. QED
    BY <1>1, <1>2, <1>9, <1>e, <2>1 DEF ClientInv, End, NewClient, NothingGiven
<1>10. QED BY <1>4, <1>5, <1>6, <1>7, <1>8, <1>9 DEF ClientNext

Handle == [url : Urls, login : {Login, NoLogin}, headers : SUBSET Headers,
           status : Nat, length : Int, body : Seq(Pieces), offset : Nat,
           opened : BOOLEAN, performed : BOOLEAN]

(* What was read since the open is the beginning of the body it left.      *)
EspInv ==
  /\ mock \in MockRoots
  /\ esp # Nothing => esp \in Handle
  /\ esp # Nothing /\ esp.opened =>
       /\ esp.body = espOpened.body /\ esp.offset <= Len(esp.body)
       /\ espRead = SubSeq(esp.body, 1, esp.offset)
       /\ ~esp.performed => /\ esp.status = espOpened.status
                            /\ esp.length = Len(espOpened.body)
  /\ esp # Nothing => \A i \in DOMAIN esp.body :
       IsAsked(esp.url, esp.body[i], esp.headers, esp.login)

(* The calls of esp_http_client keep the invariant.                        *)
LEMMA EspStep == EspInv /\ EspNext => EspInv'
<1> SUFFICES ASSUME EspInv, EspNext PROVE EspInv'
  OBVIOUS
<1>1. /\ mock \in MockRoots
      /\ esp # Nothing => esp \in Handle
  BY DEF EspInv
<1>2. mock' = mock
  BY DEF EspNext, EspInit, EspSetHeader, EspPerform, EspOpen, EspRead,
         EspClose, EspCleanup
<1>3. ASSUME NEW url, NEW piece, NEW headers, NEW login
      PROVE  IsAsked(url, piece, headers, login)' =
             IsAsked(url, piece, headers, login)
  BY <1>2 DEF IsAsked, IsFixtureOf, MockDirs
<1>e. <<>> \in Seq(Pieces) /\ DOMAIN <<>> = {}
  OBVIOUS
<1>4. ASSUME NEW url \in Urls, NEW login \in {Login, NoLogin},
             EspInit(url, login)
      PROVE  EspInv'
  <2>1. esp' \in Handle /\ esp'.opened = FALSE /\ esp'.body = <<>>
    BY <1>4, <1>e DEF EspInit, Handle
  <2>2. QED BY <1>1, <1>2, <1>e, <2>1 DEF EspInv
<1>5. ASSUME NEW h \in Headers, EspSetHeader(h) PROVE EspInv'
  <2>1. /\ esp' \in Handle /\ esp # Nothing
        /\ esp'.headers = esp.headers \cup {h} /\ esp'.login = esp.login
        /\ esp'.url = esp.url /\ esp'.body = esp.body
        /\ esp'.offset = esp.offset /\ esp'.opened = esp.opened
        /\ esp'.performed = esp.performed /\ esp'.status = esp.status
        /\ esp'.length = esp.length
    BY <1>1, <1>5 DEF EspSetHeader, Handle
  <2>2. \A i \in DOMAIN esp.body :
          IsAsked(esp.url, esp.body[i], esp'.headers, esp'.login)
    BY <2>1 DEF EspInv, IsAsked
  <2>3. QED BY <1>1, <1>2, <1>3, <1>5, <2>1, <2>2 DEF EspInv, EspSetHeader
<1>6. CASE EspPerform
  <2>1. PICK a \in Fetch(esp.url, esp.headers, NoLogin) :
          esp' = [esp EXCEPT !.status = a.status, !.length = Len(a.body),
                             !.performed = TRUE]
    BY <1>6 DEF EspPerform
  <2>2. esp # Nothing /\ esp \in Handle
    BY <1>1, <1>6 DEF EspPerform
  <2>3. a.status \in Nat /\ Len(a.body) \in Int
    <3>1. Honest(a, esp.url, esp.headers, NoLogin)
      BY <1>1, <2>2, FetchIsHonest DEF Handle
    <3>2. QED BY <3>1 DEF Honest
  <2>4. /\ esp' \in Handle
        /\ esp'.headers = esp.headers /\ esp'.login = esp.login
        /\ esp'.url = esp.url /\ esp'.body = esp.body
        /\ esp'.offset = esp.offset /\ esp'.opened = esp.opened
        /\ esp'.performed = TRUE
    BY <2>1, <2>2, <2>3 DEF Handle
  <2>5. QED BY <1>1, <1>2, <1>3, <1>6, <2>2, <2>4 DEF EspInv, EspPerform
<1>7. CASE EspOpen
  <2>1. esp # Nothing /\ esp \in Handle
    BY <1>1, <1>7 DEF EspOpen
  <2>2. PICK a \in Fetch(esp.url, esp.headers, esp.login) :
          IF a.ok
          THEN esp' = OpenedWith(a) /\ espOpened' = a /\ espRead' = <<>>
          ELSE UNCHANGED espVars
    BY <1>7 DEF EspOpen
  <2>3. Honest(a, esp.url, esp.headers, esp.login)
    BY <1>1, <2>1, FetchIsHonest DEF Handle
  <2>4. CASE a.ok
    <3>1. /\ esp' \in Handle
          /\ esp'.headers = esp.headers /\ esp'.login = esp.login
          /\ esp'.url = esp.url /\ esp'.body = a.body /\ esp'.offset = 0
          /\ esp'.status = a.status /\ esp'.length = Len(a.body)
      <4>1. /\ a.status \in Nat /\ a.body \in Seq(Pieces)
            /\ Len(a.body) \in Int
        BY <2>3 DEF Honest
      <4>2. esp' = [url |-> esp.url, login |-> esp.login,
                    headers |-> esp.headers, status |-> a.status,
                    length |-> Len(a.body), body |-> a.body, offset |-> 0,
                    opened |-> TRUE, performed |-> FALSE]
        BY <2>1, <2>2, <2>4 DEF OpenedWith, Handle
      <4>3. QED BY <2>1, <4>1, <4>2 DEF Handle
    <3>2. SubSeq(a.body, 1, 0) = <<>> /\ 0 <= Len(a.body)
      BY <2>3, SubSeqEmpty DEF Honest
    <3>3. espOpened' = a /\ espRead' = <<>>
      BY <2>2, <2>4
    <3>4. QED
      BY <1>1, <1>2, <1>3, <2>3, <3>1, <3>2, <3>3 DEF EspInv, Honest
  <2>5. CASE ~a.ok
    BY <1>1, <1>2, <1>3, <2>2, <2>5 DEF EspInv, espVars
  <2>6. QED BY <2>4, <2>5
<1>8. ASSUME NEW len \in 1 .. 2, EspRead(len) PROVE EspInv'
  <2> DEFINE b == esp.body
             stop == IF esp.offset + len < Len(b) THEN esp.offset + len
                     ELSE Len(b)
  <2>1. /\ esp # Nothing /\ esp \in Handle /\ b \in Seq(Pieces)
        /\ espRead = SubSeq(b, 1, esp.offset)
        /\ esp.offset \in 0 .. Len(b) /\ b = espOpened.body
    BY <1>1, <1>8 DEF EspRead, EspInv, Handle
  <2>2. stop \in esp.offset .. Len(b) /\ stop \in Nat
    BY <2>1 DEF Handle
  <2>3. /\ espRead' = espRead \o SubSeq(b, esp.offset + 1, stop)
        /\ esp' = [esp EXCEPT !.offset = stop] /\ espOpened' = espOpened
    BY <1>8 DEF EspRead
  <2>4. espRead' = SubSeq(b, 1, stop)
    <3>1. Len(b) \in Nat /\ 1 \in 1 .. Len(b) + 1 /\ 1 - 1 = 0
      BY <2>1
    <3>2. QED BY <2>1, <2>2, <2>3, <3>1, ConcatAdjacentSubSeq
  <2> HIDE DEF stop
  <2>5. /\ esp' \in Handle
        /\ esp'.headers = esp.headers /\ esp'.login = esp.login
        /\ esp'.url = esp.url /\ esp'.body = b /\ esp'.offset = stop
        /\ esp'.status = esp.status /\ esp'.length = esp.length
        /\ esp'.opened = esp.opened /\ esp'.performed = esp.performed
    BY <2>1, <2>2, <2>3 DEF Handle
  <2>6. QED
    <3>1. \A i \in DOMAIN esp'.body :
            IsAsked(esp.url, esp.body[i], esp.headers, esp.login)'
      BY <1>3, <2>1, <2>5 DEF EspInv
    <3>3. esp'.opened /\ ~esp'.performed =>
            esp'.status = espOpened'.status
            /\ esp'.length = Len(espOpened'.body)
      BY <2>1, <2>3, <2>5 DEF EspInv
    <3>4. esp'.body = espOpened'.body
      BY <2>1, <2>3, <2>5
    <3>5. esp'.offset <= Len(esp'.body)
      BY <2>1, <2>2, <2>5
    <3>6. espRead' = SubSeq(esp'.body, 1, esp'.offset)
      BY <2>4, <2>5, Zenon
    <3>7. QED BY <1>1, <1>2, <2>5, <3>1, <3>3, <3>4, <3>5, <3>6 DEF EspInv
<1>9. CASE EspClose
  <2>1. esp' \in Handle /\ esp'.opened = FALSE /\ esp'.body = <<>>
    <3>1. esp # Nothing /\ esp \in Handle
      BY <1>1, <1>9 DEF EspClose
    <3>2. esp' = [esp EXCEPT !.body = <<>>, !.offset = 0, !.opened = FALSE]
      BY <1>9 DEF EspClose
    <3>3. QED BY <1>e, <3>1, <3>2 DEF Handle
  <2>2. QED BY <1>1, <1>2, <1>e, <2>1 DEF EspInv
<1>10. CASE EspCleanup
  BY <1>1, <1>2, <1>10 DEF EspInv, EspCleanup
<1>11. QED BY <1>4, <1>5, <1>6, <1>7, <1>8, <1>9, <1>10 DEF EspNext

HttpInv == EspInv /\ ClientInv

(* Neither client touches the other, nor does the mock root change.        *)
LEMMA HttpInductive ==
  /\ Init => HttpInv
  /\ HttpInv /\ [Next /\ UNCHANGED focus]_shimVars => HttpInv'
<1>1. Init => HttpInv
  BY DEF Init, HttpInit, HttpInv, EspInv, ClientInv, MockRoots, NewClient,
         NothingGiven, Client
<1>2. ASSUME HttpInv, UNCHANGED <<mock, espVars>> PROVE EspInv'
  BY <1>2 DEF HttpInv, EspInv, espVars, IsAsked, IsFixtureOf, MockDirs
<1>3. ASSUME HttpInv, UNCHANGED <<mock, clientVars>> PROVE ClientInv'
  BY <1>3 DEF HttpInv, ClientInv, clientVars, IsAsked, IsFixtureOf, MockDirs
<1>4. ASSUME HttpInv, [Next /\ UNCHANGED focus]_shimVars PROVE HttpInv'
  <2>1. CASE EspNext
    <3>1. UNCHANGED <<mock, clientVars>>
      BY <2>1 DEF EspNext, EspInit, EspSetHeader, EspPerform, EspOpen,
                  EspRead, EspClose, EspCleanup
    <3>2. QED BY <1>3, <1>4, <2>1, <3>1, EspStep DEF HttpInv
  <2>2. CASE ClientNext
    <3>1. UNCHANGED <<mock, espVars>>
      BY <2>2 DEF ClientNext, Begin, AddHeader, SetAuthorization,
                  PerformRequest, ReadStream, End
    <3>2. QED BY <1>2, <1>4, <2>2, <3>1, ClientStep DEF HttpInv
  <2>3. CASE UNCHANGED httpVars
    BY <1>2, <1>3, <1>4, <2>3 DEF HttpInv, httpVars
  <2>4. QED BY <1>4, <2>1, <2>2, <2>3 DEF Next, shimVars
<1>5. QED BY <1>1, <1>4

(* For all URLs, fixtures and headers, over failed, repeated and mixed     *)
(* calls, what a client reads is the beginning of one response, and is     *)
(* complete when the client says so (esp_http_client_read,                 *)
(* is_complete_data_received; HTTPClient::connected).                      *)
THEOREM ResponsesAreWhole == Spec => []OneResponse
<1>1. HttpInv => OneResponse
  <2> SUFFICES ASSUME HttpInv PROVE OneResponse
    OBVIOUS
  <2>1. ASSUME esp # Nothing, esp.opened
        PROVE  /\ IsPrefix(espRead, espOpened.body)
               /\ IsComplete <=> espRead = espOpened.body
    <3> DEFINE b == esp.body
    <3>1. b \in Seq(Pieces) /\ esp.offset \in 0 .. Len(b)
          /\ espRead = SubSeq(b, 1, esp.offset) /\ b = espOpened.body
      BY <2>1 DEF HttpInv, EspInv, Handle
    <3>2. IsComplete <=> esp.offset = Len(b)
      BY <2>1, <3>1 DEF IsComplete
    <3>3. QED BY <3>1, <3>2, BeginningOf
  <2>2. /\ IsPrefix(streamed, http.body)
        /\ http.stream # Nothing /\ ~HttpConnected => streamed = http.body
    <3> DEFINE b == http.body
    <3>1. b \in Seq(Pieces)
      BY DEF HttpInv, ClientInv, Client
    <3>2. CASE http.stream = Nothing
      <4>1. streamed = SubSeq(b, 1, 0) /\ 0 \in 0 .. Len(b)
        BY <3>1, <3>2, SubSeqEmpty DEF HttpInv, ClientInv
      <4>2. QED BY <3>1, <3>2, <4>1, BeginningOf
    <3>3. CASE http.stream # Nothing
      <4>1. http.stream.at \in 0 .. Len(b) /\ http.stream.text = b
            /\ streamed = SubSeq(b, 1, http.stream.at)
        BY <3>1, <3>3 DEF HttpInv, ClientInv, Client, Streams
      <4>2. ~HttpConnected => http.stream.at = Len(b)
        BY <3>1, <3>3, <4>1 DEF HttpConnected
      <4>3. QED BY <3>1, <4>1, <4>2, BeginningOf
    <3>4. QED BY <3>2, <3>3
  <2>3. QED BY <2>1, <2>2 DEF OneResponse, HttpInv, EspInv
<1>2. QED BY <1>1, HttpInductive, PTL DEF Spec

(* For all URLs, fixtures and headers, no client holds a piece that its    *)
(* request did not ask for; below an authoritative snapshots tree no file  *)
(* stands in for another of its name.                                      *)
THEOREM BodiesAreAsked == Spec => []BodiesAsAsked
<1>1. HttpInv => BodiesAsAsked
  BY DEF HttpInv, EspInv, ClientInv, BodiesAsAsked
<1>2. QED BY <1>1, HttpInductive, PTL DEF Spec

-----------------------------------------------------------------------------
(* Sockets.                                                                *)

Fds == Sockets \cup {Absent}

(* Each open descriptor of o is named by one of elsewhere, the Impls, the  *)
(* plain client and the one with TLS, and by nobody else.                  *)
Owned(o, e, f, p, t) ==
  /\ o \subseteq Sockets /\ e \subseteq o
  /\ f \in [Impls -> Fds] /\ p \in Fds /\ t \in Fds
  /\ \A i \in Impls : f[i] # Absent =>
       /\ f[i] \in o \ e /\ f[i] # p /\ f[i] # t
       /\ \A j \in Impls \ {i} : f[j] # f[i]
  /\ p # Absent => p \in o \ e /\ p # t
  /\ t # Absent => t \in o \ e
  /\ \A fd \in o : \/ fd \in e \/ fd = p \/ fd = t
                   \/ \E i \in Impls : f[i] = fd

(* Other parts of the simulator open what is free and close their own.     *)
LEMMA ElsewhereMoves ==
  ASSUME NEW o, NEW e, NEW f, NEW p, NEW t, Owned(o, e, f, p, t)
  PROVE  /\ \A fd \in Sockets \ o : Owned(o \cup {fd}, e \cup {fd}, f, p, t)
         /\ \A fd \in e : Owned(o \ {fd}, e \ {fd}, f, p, t)
  BY SocketsAssumption DEF Owned, Fds

(* The client without TLS drops its descriptor, or changes it for one that *)
(* is free or was its own.                                                 *)
LEMMA PlainMoves ==
  ASSUME NEW o, NEW e, NEW f, NEW p, NEW t, Owned(o, e, f, p, t)
  PROVE  /\ Owned(o \ {p}, e, f, Absent, t)
         /\ \A fd \in Sockets : fd \notin o \/ fd = p =>
              Owned((o \ {p}) \cup {fd}, e, f, fd, t)
  BY SocketsAssumption DEF Owned, Fds

(* So does the client with TLS.                                            *)
LEMMA TlsMoves ==
  ASSUME NEW o, NEW e, NEW f, NEW p, NEW t, Owned(o, e, f, p, t)
  PROVE  /\ Owned(o \ {t}, e, f, p, Absent)
         /\ \A fd \in Sockets \ o : Owned((o \ {t}) \cup {fd}, e, f, p, fd)
  BY SocketsAssumption DEF Owned, Fds

(* An Impl drops its descriptor; one without gets one that is free.        *)
LEMMA ImplMoves ==
  ASSUME NEW o, NEW e, NEW f, NEW p, NEW t, Owned(o, e, f, p, t),
         NEW i \in Impls
  PROVE  /\ Owned(o \ {f[i]}, e, [f EXCEPT ![i] = Absent], p, t)
         /\ f[i] = Absent => \A fd \in Sockets \ o :
              Owned(o \cup {fd}, e, [f EXCEPT ![i] = fd], p, t)
  BY SocketsAssumption DEF Owned, Fds

Labels == {"idle", "tcp", "ctx", "ssl", "handshake", "handshakeDelay",
           "write", "writeDelay"}
TlsStates == [fd : Fds, ctx : BOOLEAN, ssl : Fds, up : BOOLEAN,
              aborted : BOOLEAN, left : Nat, pc : Labels]
(* Which layers stand at each place in a call: transport, context,         *)
(* session, and whether the connection is up.                              *)
TlsInv ==
  /\ abort \in BOOLEAN
  /\ tls \in TlsStates
  /\ tls.pc \in {"tcp"} \/ (tls.pc = "idle" /\ ~tls.up) =>
       tls.fd = Absent /\ ~tls.ctx
  /\ tls.pc \in {"tcp", "ctx", "ssl"} \/ (tls.pc = "idle" /\ ~tls.up) =>
       tls.ssl = Absent
  /\ tls.pc \in {"ctx", "ssl", "handshake", "handshakeDelay"} =>
       tls.fd # Absent
  /\ tls.pc \in {"ssl", "handshake", "handshakeDelay"} => tls.ctx
  /\ tls.pc \in {"handshake", "handshakeDelay"} \/ tls.up =>
       tls.ssl = tls.fd /\ tls.ctx /\ tls.fd # Absent
  /\ tls.pc \in {"tcp", "ctx", "ssl", "handshake", "handshakeDelay"} =>
       ~tls.up
  /\ tls.pc \in {"write", "writeDelay"} => tls.up

(* An Impl that names a descriptor is held by a copy, so that somebody     *)
(* will close it.                                                          *)
HeldInv ==
  /\ impl \in [Copies -> Impls \cup {Absent}]
  /\ \A i \in Impls : implFd[i] # Absent => \E c \in Copies : impl[c] = i

FdInv == Owned(opened, elsewhere, implFd, plainFd, tls.fd)
SocketsInv == FdInv /\ HeldInv /\ TlsInv

(* The invariant says who owns what.                                       *)
LEMMA OwnersFollow == SocketsInv => SocketsOwned
<1> SUFFICES ASSUME SocketsInv PROVE SocketsOwned
  OBVIOUS
<1>1. LayersAreRight
  BY DEF SocketsInv, TlsInv, TlsStates, LayersAreRight, Labels
<1>2. ASSUME NEW fd \in Sockets
      PROVE  /\ fd \in opened <=> Owners(fd) # {}
             /\ \A o, p \in Owners(fd) : o = p
  <2> DEFINE impls == {j \in Impls : implFd[j] = fd}
  <2>1. {j \in Impls : Holding(j) # {} /\ implFd[j] = fd} = impls
    <3>1. fd # Absent
      BY SocketsAssumption
    <3>2. QED BY <3>1 DEF SocketsInv, HeldInv, Holding
  <2>2. \A o : o \in Owners(fd) <=>
          \/ \E i \in impls : o = <<"impl", i>>
          \/ plainFd = fd /\ o = <<"plain">>
          \/ tls.fd = fd /\ o = <<"tls">>
          \/ fd \in elsewhere /\ o = <<"elsewhere">>
    BY <2>1, Zenon DEF Owners
  <2>3. /\ fd # Absent
        /\ Owned(opened, elsewhere, implFd, plainFd, tls.fd)
    BY SocketsAssumption DEF SocketsInv, FdInv
  <2>4. /\ \A i, j \in impls : i = j
        /\ impls # {} => fd # plainFd /\ fd # tls.fd /\ fd \notin elsewhere
        /\ plainFd = fd => tls.fd # fd /\ fd \notin elsewhere
        /\ tls.fd = fd => fd \notin elsewhere
        /\ fd \in opened <=> \/ impls # {} \/ plainFd = fd \/ tls.fd = fd
                             \/ fd \in elsewhere
    BY <2>3 DEF Owned
  <2> HIDE DEF impls
  <2>5. ASSUME NEW o \in Owners(fd), NEW p \in Owners(fd) PROVE o = p
    <3>1. CASE impls # {}
      <4>1. plainFd # fd /\ tls.fd # fd /\ fd \notin elsewhere
        BY <2>4, <3>1
      <4>2. PICK i \in impls : o = <<"impl", i>>
        BY <2>2, <4>1, Zenon
      <4>3. PICK j \in impls : p = <<"impl", j>>
        BY <2>2, <4>1, Zenon
      <4>4. QED BY <2>4, <4>2, <4>3
    <3>2. CASE impls = {}
      <4>1. \A i : i \notin impls
        BY <3>2
      <4>2. CASE plainFd = fd
        <5>1. \A q \in Owners(fd) : q = <<"plain">>
          BY <2>2, <2>4, <4>1, <4>2, Zenon
        <5>2. QED BY <5>1, Zenon
      <4>3. CASE plainFd # fd /\ tls.fd = fd
        <5>1. \A q \in Owners(fd) : q = <<"tls">>
          BY <2>2, <2>4, <4>1, <4>3, Zenon
        <5>2. QED BY <5>1, Zenon
      <4>4. CASE plainFd # fd /\ tls.fd # fd
        <5>1. \A q \in Owners(fd) : q = <<"elsewhere">>
          BY <2>2, <4>1, <4>4, Zenon
        <5>2. QED BY <5>1, Zenon
      <4>5. QED BY <4>2, <4>3, <4>4
    <3>3. QED BY <3>1, <3>2
  <2>6. fd \in opened <=> Owners(fd) # {}
    <3>1. Owners(fd) # {} <=> \E o : o \in Owners(fd)
      OBVIOUS
    <3>2. (\E o : o \in Owners(fd)) <=>
            \/ impls # {} \/ plainFd = fd \/ tls.fd = fd \/ fd \in elsewhere
      <4>1. impls # {} <=> \E i : i \in impls
        OBVIOUS
      <4>2. QED BY <2>2, <4>1, Zenon
    <3>3. QED BY <2>4, <3>1, <3>2
  <2>7. QED BY <2>5, <2>6
<1>3. QED BY <1>1, <1>2 DEF SocketsOwned, OwnersAreRight

(* NetworkClient: connecting, stopping, copying and letting go.            *)
LEMMA NetStep ==
  ASSUME SocketsInv, NEW c \in Copies,
         \/ NetConnect(c) \/ NetStop(c) \/ NetDuplicate(c)
         \/ \E new \in {impl[d] : d \in Copies} \cup {Absent} :
              NetAssign(c, new)
  PROVE  SocketsInv'
<1>1. /\ Owned(opened, elsewhere, implFd, plainFd, tls.fd)
      /\ impl \in [Copies -> Impls \cup {Absent}]
      /\ \A i \in Impls : implFd[i] # Absent => \E d \in Copies : impl[d] = i
      /\ implFd \in [Impls -> Fds] /\ Absent \notin Impls
      /\ Absent \notin Sockets /\ opened \subseteq Sockets
  BY SocketsAssumption DEF SocketsInv, FdInv, HeldInv, Owned
<1>2. UNCHANGED <<elsewhere, plainFd, tls, abort, late>>
  BY DEF NetConnect, NetStop, NetDuplicate, NetAssign
<1>3. TlsInv'
  BY <1>2 DEF SocketsInv, TlsInv
<1>4. ASSUME NEW i \in Impls, Holding(i) = {} PROVE implFd[i] = Absent
  BY <1>1, <1>4 DEF Holding
<1>5. CASE NetConnect(c)
  <2>1. PICK fd \in Unused, i \in Impls :
          /\ Holding(i) = {} /\ ConnectedTo(c, fd, i)
          /\ impl' = [impl EXCEPT ![c] = i]
    BY <1>5 DEF NetConnect
  <2>2. /\ fd \in Sockets \ opened /\ implFd[i] = Absent /\ i # impl[c]
        /\ fd # Absent
    BY <1>1, <1>4, <2>1 DEF Unused, Holding
  <2>3. FdInv'
    <3>1. CASE impl[c] = Absent
      <4>1. Owned(opened \cup {fd}, elsewhere, [implFd EXCEPT ![i] = fd],
                  plainFd, tls.fd)
        BY <1>1, <2>2, ImplMoves
      <4>2. implFd' = [implFd EXCEPT ![i] = fd]
            /\ opened' = opened \cup {fd}
        BY <1>1, <2>1, <3>1 DEF ConnectedTo
      <4>3. QED BY <1>2, <4>1, <4>2 DEF FdInv
    <3>2. CASE impl[c] # Absent
      <4> DEFINE k == impl[c]
                 o == opened \ {implFd[k]}
                 f == [implFd EXCEPT ![k] = Absent]
      <4>1. k \in Impls /\ k # i
        BY <1>1, <2>2, <3>2
      <4>2. Owned(o, elsewhere, f, plainFd, tls.fd)
        BY <1>1, <4>1, ImplMoves
      <4>3. f[i] = Absent /\ fd \in Sockets \ o
        BY <1>1, <2>2, <4>1
      <4>4. Owned(o \cup {fd}, elsewhere, [f EXCEPT ![i] = fd],
                  plainFd, tls.fd)
        <5> HIDE DEF o, f
        <5>1. QED BY <4>2, <4>3, ImplMoves
      <4>5. opened' = o \cup {fd}
        <5>1. fd # implFd[k]
          BY <1>1, <2>2, <4>1 DEF Owned
        <5>2. QED BY <2>1, <3>2, <5>1 DEF ConnectedTo
      <4>6. implFd' = [f EXCEPT ![i] = fd]
        BY <1>1, <2>1, <4>1 DEF ConnectedTo
      <4>7. QED BY <1>2, <4>4, <4>5, <4>6 DEF FdInv
    <3>3. QED BY <3>1, <3>2
  <2>4. HeldInv'
    <3>1. /\ impl' \in [Copies -> Impls \cup {Absent}] /\ impl'[c] = i
          /\ \A d \in Copies \ {c} : impl'[d] = impl[d]
      BY <1>1, <2>1
    <3>2. \A j \in Impls : implFd'[j] # Absent =>
            j = i \/ (j # impl[c] /\ implFd[j] # Absent)
      BY <1>1, <2>1, <2>2 DEF ConnectedTo
    <3>3. QED BY <1>1, <3>1, <3>2 DEF HeldInv
  <2>5. QED BY <1>3, <2>3, <2>4 DEF SocketsInv
<1>6. CASE NetStop(c)
  <2>1. impl[c] \in Impls
    BY <1>1, <1>6 DEF NetStop
  <2>2. FdInv'
    BY <1>1, <1>2, <1>6, <2>1, ImplMoves DEF NetStop, FdInv
  <2>3. HeldInv'
    BY <1>1, <1>6, <2>1 DEF NetStop, HeldInv
  <2>4. QED BY <1>3, <2>2, <2>3 DEF SocketsInv
<1>7. CASE NetDuplicate(c)
  <2>1. PICK fd \in Unused \cup {Absent}, i \in Impls :
          /\ Holding(i) = {}
          /\ opened' = opened \cup ({fd} \ {Absent})
          /\ implFd' = [implFd EXCEPT ![i] = fd]
          /\ impl' = [impl EXCEPT ![c] = i]
    BY <1>7 DEF NetDuplicate
  <2>2. implFd[i] = Absent /\ impl[c] = Absent
    BY <1>4, <1>7, <2>1 DEF NetDuplicate
  <2>3. FdInv'
    <3>1. CASE fd = Absent
      <4>1. opened' = opened /\ implFd' = implFd
        BY <1>1, <2>1, <2>2, <3>1
      <4>2. QED BY <1>1, <1>2, <4>1 DEF FdInv
    <3>2. CASE fd # Absent
      <4>1. fd \in Sockets \ opened /\ opened' = opened \cup {fd}
        BY <2>1, <3>2 DEF Unused
      <4>2. Owned(opened \cup {fd}, elsewhere, [implFd EXCEPT ![i] = fd],
                  plainFd, tls.fd)
        BY <1>1, <2>2, <4>1, ImplMoves
      <4>3. QED BY <1>2, <2>1, <4>1, <4>2 DEF FdInv
    <3>3. QED BY <3>1, <3>2
  <2>4. HeldInv'
    BY <1>1, <2>1, <2>2 DEF HeldInv
  <2>5. QED BY <1>3, <2>3, <2>4 DEF SocketsInv
<1>8. ASSUME NEW new \in {impl[d] : d \in Copies} \cup {Absent},
             NetAssign(c, new)
      PROVE  SocketsInv'
  <2>1. new \in Impls \cup {Absent} /\ new # impl[c]
        /\ impl' = [impl EXCEPT ![c] = new]
        /\ (new = Absent \/ \E d \in Copies \ {c} : impl[d] = new)
    BY <1>1, <1>8 DEF NetAssign
  <2>2. /\ impl' \in [Copies -> Impls \cup {Absent}] /\ impl'[c] = new
        /\ \A d \in Copies \ {c} : impl'[d] = impl[d]
    BY <1>1, <2>1
  <2>3. CASE impl[c] # Absent /\ Holding(impl[c]) = {c}
    <3>1. impl[c] \in Impls /\ Dying(c) = {implFd[impl[c]]}
      BY <1>1, <2>3 DEF Dying
    <3>2. /\ opened' = opened \ {implFd[impl[c]]}
          /\ implFd' = [implFd EXCEPT ![impl[c]] = Absent]
      BY <1>8, <3>1 DEF NetAssign
    <3>3. FdInv'
      BY <1>1, <1>2, <3>1, <3>2, ImplMoves DEF FdInv
    <3>4. HeldInv'
      BY <1>1, <2>2, <3>1, <3>2 DEF HeldInv
    <3>5. QED BY <1>3, <3>3, <3>4 DEF SocketsInv
  <2>4. CASE ~(impl[c] # Absent /\ Holding(impl[c]) = {c})
    <3>1. Dying(c) = {}
      BY <2>4 DEF Dying
    <3>2. opened' = opened /\ implFd' = implFd
      BY <1>8, <3>1 DEF NetAssign
    <3>3. FdInv'
      BY <1>1, <1>2, <3>2 DEF FdInv
    <3>4. ASSUME NEW j \in Impls, implFd[j] # Absent
          PROVE  \E d \in Copies : impl'[d] = j
      <4>1. PICK d \in Copies : impl[d] = j
        BY <1>1, <3>4
      <4>2. CASE d # c
        BY <2>2, <4>1, <4>2
      <4>3. CASE d = c
        <5>1. Holding(j) # {c} /\ c \in Holding(j)
          BY <1>1, <2>4, <4>1, <4>3 DEF Holding
        <5>2. PICK b \in Copies \ {c} : impl[b] = j
          BY <5>1 DEF Holding
        <5>3. QED BY <2>2, <5>2
      <4>4. QED BY <4>2, <4>3
    <3>5. HeldInv'
      BY <1>1, <2>2, <3>2, <3>4 DEF HeldInv
    <3>6. QED BY <1>3, <3>3, <3>5 DEF SocketsInv
  <2>5. QED BY <2>3, <2>4
<1>9. QED BY <1>5, <1>6, <1>7, <1>8

(* SecureClient after stop().                                              *)
Down(aborted) ==
  [fd |-> Absent, ctx |-> FALSE, ssl |-> Absent, up |-> FALSE,
   aborted |-> aborted, left |-> 0, pc |-> "idle"]

(* stop() leaves no layer.                                                 *)
LEMMA DownIsTyped ==
  ASSUME SocketsInv, NEW aborted \in BOOLEAN, tls' = Down(aborted),
         abort' = abort
  PROVE  TlsInv' /\ tls'.fd = Absent
<1>1. /\ tls'.fd = Absent /\ ~tls'.ctx /\ tls'.ssl = Absent /\ ~tls'.up
      /\ tls'.pc = "idle"
  BY DEF Down
<1>2. tls' \in TlsStates
  BY DEF TlsStates, Down, Fds, Labels
<1>3. QED BY <1>1, <1>2 DEF SocketsInv, TlsInv

(* However a call ends in stop(), it leaves the same.                      *)
LEMMA StoppedIsDown ==
  ASSUME NEW aborted
  PROVE  /\ [Stopped EXCEPT !.aborted = aborted] = Down(aborted)
         /\ Stopped = Down(tls.aborted)
<1>1. [Stopped EXCEPT !.aborted = aborted] = Down(aborted)
  <2>1. PICK r : r = [Stopped EXCEPT !.aborted = aborted]
    OBVIOUS
  <2>2. r = Down(aborted)
    BY <2>1 DEF Stopped, Down
  <2>3. QED BY <2>1, <2>2
<1>2. Stopped = Down(tls.aborted)
  BY Zenon DEF Stopped, Down
<1>3. QED BY <1>1, <1>2

(* A step of a call of SecureClient either stops the client or keeps its   *)
(* descriptor; TlsConnect and TlsTransport change it.                      *)
LEMMA TlsCallStep ==
  ASSUME SocketsInv, UNCHANGED <<elsewhere, netVars, plainFd>>,
         abort' = abort,
         \/ TlsConnect \/ TlsWriteStart \/ TlsRead \/ TlsStop \/ TlsTransport
         \/ TlsContext \/ TlsSession \/ TlsHandshake \/ TlsWrite \/ TlsDelay
  PROVE  SocketsInv'
<1> USE DEF TlsStates
<1>1. HeldInv'
  BY DEF SocketsInv, HeldInv, netVars
<1>2. /\ Owned(opened, elsewhere, implFd, plainFd, tls.fd) /\ TlsInv
      /\ implFd' = implFd /\ elsewhere' = elsewhere /\ plainFd' = plainFd
  BY DEF SocketsInv, FdInv, netVars
<1>3. tls \in TlsStates
  BY <1>2 DEF TlsInv
<1>4. abort \in BOOLEAN /\ tls.aborted \in BOOLEAN /\ Aborting \in BOOLEAN
  BY <1>2 DEF TlsInv, Aborting
<1> DEFINE Shut == /\ opened' = opened \ {tls.fd}
                   /\ \E aborted \in BOOLEAN : tls' = Down(aborted)
           Kept == opened' = opened /\ tls'.fd = tls.fd /\ TlsInv'
<1>5. ASSUME Shut PROVE SocketsInv'
  <2>1. TlsInv' /\ tls'.fd = Absent
    BY <1>5, DownIsTyped
  <2>2. Owned(opened \ {tls.fd}, elsewhere, implFd, plainFd, Absent)
    BY <1>2, TlsMoves
  <2>3. QED BY <1>1, <1>2, <1>5, <2>1, <2>2 DEF SocketsInv, FdInv
<1>6. ASSUME Kept PROVE SocketsInv'
  BY <1>1, <1>2, <1>6 DEF SocketsInv, FdInv
<1>7. ASSUME Stop PROVE Shut
  BY <1>4, <1>7, StoppedIsDown DEF Stop
<1>8. CASE TlsConnect
  <2>1. CASE abort
    <3>1. tls' = Down(abort)
      BY <1>8, <2>1 DEF TlsConnect, Stopped, Down
    <3>2. QED BY <1>4, <1>5, <1>8, <3>1 DEF TlsConnect
  <2>2. CASE ~abort
    <3>1. tls' = [fd |-> Absent, ctx |-> FALSE, ssl |-> Absent, up |-> FALSE,
                  aborted |-> abort, left |-> 0, pc |-> "tcp"]
      BY <1>8, <2>2 DEF TlsConnect, Stopped
    <3>2. TlsInv' /\ tls'.fd = Absent
      BY <1>4, <3>1 DEF TlsInv, Fds, Labels
    <3>3. Owned(opened \ {tls.fd}, elsewhere, implFd, plainFd, Absent)
      BY <1>2, TlsMoves
    <3>4. QED
      BY <1>1, <1>2, <1>8, <3>2, <3>3 DEF TlsConnect, SocketsInv, FdInv
  <2>3. QED BY <2>1, <2>2
<1>9. CASE TlsTransport
  <2>1. ASSUME NEW fd \in Unused, abort,
               tls' = [Stopped EXCEPT !.aborted = TRUE], opened' = opened
        PROVE  SocketsInv'
    <3>1. TlsInv' /\ tls'.fd = Absent
      BY <2>1, StoppedIsDown, DownIsTyped
    <3>2. tls.fd = Absent
      BY <1>2, <1>9 DEF TlsInv, TlsTransport
    <3>3. QED BY <1>6, <2>1, <3>1, <3>2
  <2>2. ASSUME NEW fd \in Unused, opened' = opened \cup {fd},
               tls' = [tls EXCEPT !.fd = fd, !.pc = "ctx"]
        PROVE  SocketsInv'
    <3>1. fd \in Sockets \ opened /\ fd \in Fds /\ fd # Absent
      BY SocketsAssumption DEF Unused, Fds
    <3>2. tls.fd = Absent /\ tls.ssl = Absent /\ ~tls.ctx /\ ~tls.up
      BY <1>2, <1>9 DEF TlsInv, TlsTransport
    <3>3. /\ tls'.fd = fd /\ tls'.pc = "ctx" /\ tls'.ssl = tls.ssl
          /\ tls'.ctx = tls.ctx /\ tls'.up = tls.up
          /\ tls' \in TlsStates
      BY <1>3, <2>2, <3>1 DEF Labels
    <3>4. TlsInv'
      BY <1>4, <3>1, <3>2, <3>3 DEF TlsInv
    <3>5. Owned((opened \ {tls.fd}) \cup {fd}, elsewhere, implFd, plainFd, fd)
      BY <1>2, <3>1, TlsMoves
    <3>6. opened \ {tls.fd} = opened
      BY <1>2, <3>2, SocketsAssumption DEF Owned
    <3>7. QED
      BY <1>1, <1>2, <2>2, <3>3, <3>4, <3>5, <3>6 DEF SocketsInv, FdInv
  <2>3. QED BY <1>5, <1>7, <1>9, <2>1, <2>2 DEF TlsTransport
<1>10. CASE TlsContext
  <2>1. ASSUME tls' = [tls EXCEPT !.ctx = TRUE, !.pc = "ssl"],
               opened' = opened
        PROVE  Kept
    <3>1. /\ tls'.fd = tls.fd /\ tls'.pc = "ssl" /\ tls'.ssl = tls.ssl
          /\ tls'.ctx = TRUE /\ tls'.up = tls.up
          /\ tls' \in TlsStates
      BY <1>3, <2>1 DEF Labels
    <3>2. QED BY <1>2, <1>4, <1>10, <2>1, <3>1 DEF TlsInv, TlsContext
  <2>2. QED BY <1>5, <1>6, <1>7, <1>10, <2>1 DEF TlsContext
<1>11. CASE TlsSession
  <2>1. ASSUME tls' = [tls EXCEPT !.ssl = tls.fd, !.pc = "handshake"],
               opened' = opened
        PROVE  Kept
    <3>1. /\ tls'.fd = tls.fd /\ tls'.pc = "handshake" /\ tls'.ssl = tls.fd
          /\ tls'.ctx = tls.ctx /\ tls'.up = tls.up
          /\ tls' \in TlsStates
      BY <1>3, <2>1 DEF Labels
    <3>2. QED BY <1>2, <1>4, <1>11, <2>1, <3>1 DEF TlsInv, TlsSession
  <2>2. QED BY <1>5, <1>6, <1>7, <1>11, <2>1 DEF TlsSession
<1>12. CASE TlsHandshake
  <2>1. CASE Aborting
    BY <1>5, <1>12, <2>1, StoppedIsDown DEF TlsHandshake
  <2>2. ASSUME tls' = [tls EXCEPT !.up = TRUE, !.pc = "idle"],
               opened' = opened
        PROVE  Kept
    <3>1. /\ tls'.fd = tls.fd /\ tls'.pc = "idle" /\ tls'.ssl = tls.ssl
          /\ tls'.ctx = tls.ctx /\ tls'.up = TRUE
          /\ tls' \in TlsStates
      BY <1>3, <2>2 DEF Labels
    <3>2. QED BY <1>2, <1>4, <1>12, <2>2, <3>1 DEF TlsInv, TlsHandshake
  <2>3. ASSUME Goto("handshakeDelay") PROVE Kept
    <3>1. /\ tls'.fd = tls.fd /\ tls'.pc = "handshakeDelay"
          /\ tls'.ssl = tls.ssl /\ tls'.ctx = tls.ctx /\ tls'.up = tls.up
          /\ tls' \in TlsStates
      BY <1>3, <2>3 DEF Goto, Labels
    <3>2. QED BY <1>2, <1>4, <1>12, <2>3, <3>1 DEF TlsInv, TlsHandshake, Goto
  <2>4. QED BY <1>5, <1>6, <1>7, <1>12, <2>1, <2>2, <2>3 DEF TlsHandshake
<1>13. CASE TlsWriteStart
  <2>1. tls' = [tls EXCEPT !.pc = "write", !.left = MaxWrite]
        /\ opened' = opened /\ tls.pc = "idle" /\ tls.up
    BY <1>13 DEF TlsWriteStart
  <2>2. /\ tls'.fd = tls.fd /\ tls'.pc = "write" /\ tls'.ssl = tls.ssl
        /\ tls'.ctx = tls.ctx /\ tls'.up = tls.up
        /\ tls' \in TlsStates
    BY <1>3, <2>1, SocketsAssumption DEF Labels
  <2>3. QED BY <1>2, <1>4, <1>6, <2>1, <2>2 DEF TlsInv
<1>14. CASE TlsWrite
  <2>1. ASSUME NEW n \in 1 .. tls.left, opened' = opened,
               tls' = [tls EXCEPT !.left = @ - n,
                         !.pc = IF n = tls.left THEN "idle" ELSE "write"]
        PROVE  Kept
    <3>1. PICK label \in {"idle", "write"} :
            label = IF n = tls.left THEN "idle" ELSE "write"
      OBVIOUS
    <3>2. PICK left \in Nat : left = tls.left - n
      BY <1>3
    <3>3. tls' = [tls EXCEPT !.left = left, !.pc = label]
      BY <1>3, <2>1, <3>1, <3>2
    <3>4. /\ tls'.fd = tls.fd /\ tls'.pc = label /\ tls'.ssl = tls.ssl
          /\ tls'.ctx = tls.ctx /\ tls'.up = tls.up
          /\ tls' \in TlsStates
      BY <1>3, <3>3 DEF Labels
    <3>5. QED BY <1>2, <1>4, <1>14, <2>1, <3>4 DEF TlsInv, TlsWrite
  <2>2. ASSUME Goto("writeDelay") PROVE Kept
    <3>1. /\ tls'.fd = tls.fd /\ tls'.pc = "writeDelay"
          /\ tls'.ssl = tls.ssl /\ tls'.ctx = tls.ctx /\ tls'.up = tls.up
          /\ tls' \in TlsStates
      BY <1>3, <2>2 DEF Goto, Labels
    <3>2. QED BY <1>2, <1>4, <1>14, <2>2, <3>1 DEF TlsInv, TlsWrite, Goto
  <2>3. ASSUME opened' = opened \ {tls.fd}, tls' = Stopped PROVE Shut
    BY <1>7, <2>3 DEF Stop
  <2>4. QED
    BY <1>4, <1>5, <1>6, <1>14, <2>1, <2>2, <2>3, StoppedIsDown DEF TlsWrite
<1>15. CASE TlsDelay
  <2>1. PICK label \in {"handshake", "write"} :
          Goto(label) /\ tls.pc = (IF label = "write" THEN "writeDelay"
                                   ELSE "handshakeDelay")
    BY <1>15 DEF TlsDelay
  <2>2. /\ tls'.fd = tls.fd /\ tls'.pc = label
        /\ tls'.ssl = tls.ssl /\ tls'.ctx = tls.ctx /\ tls'.up = tls.up
        /\ tls' \in TlsStates
    BY <1>3, <2>1 DEF Goto, Labels
  <2>3. opened' = opened
    BY <2>1 DEF Goto
  <2>4. TlsInv'
    BY <1>2, <1>4, <2>1, <2>2 DEF TlsInv
  <2>5. QED BY <1>6, <2>2, <2>3, <2>4
<1>16. CASE TlsRead \/ TlsStop
  BY <1>5, <1>7, <1>16 DEF TlsRead, TlsStop
<1>17. QED
  BY <1>8, <1>9, <1>10, <1>11, <1>12, <1>13, <1>14, <1>15, <1>16

(* All of it together.                                                     *)
LEMMA SocketsStep == SocketsInv /\ SocketsNext => SocketsInv'
<1> SUFFICES ASSUME SocketsInv, SocketsNext PROVE SocketsInv'
  OBVIOUS
<1> USE DEF SocketsInv, FdInv
<1>1. CASE OpenElsewhere \/ CloseElsewhere
  <2>1. UNCHANGED <<netVars, plainFd, tls, abort, late>>
    BY <1>1 DEF OpenElsewhere, CloseElsewhere
  <2>2. FdInv'
    BY <1>1, <2>1, ElsewhereMoves
    DEF OpenElsewhere, CloseElsewhere, Unused, netVars
  <2>3. QED BY <2>1, <2>2 DEF HeldInv, TlsInv, netVars
<1>2. CASE PlainConnect \/ PlainStop
  <2>1. UNCHANGED <<elsewhere, netVars, tls, abort, late>>
    BY <1>2 DEF PlainConnect, PlainStop
  <2>2. FdInv'
    <3>1. CASE opened' = opened \ {plainFd} /\ plainFd' = Absent
      BY <2>1, <3>1, PlainMoves DEF netVars
    <3>2. ASSUME NEW fd \in (Unused \cup {plainFd}) \ {Absent},
                 opened' = (opened \ {plainFd}) \cup {fd}, plainFd' = fd
          PROVE  FdInv'
      <4>1. fd \in Sockets /\ (fd \notin opened \/ fd = plainFd)
        BY DEF Unused, Owned, Fds
      <4>2. QED BY <2>1, <3>2, <4>1, PlainMoves DEF netVars
    <3>3. QED BY <1>2, <3>1, <3>2 DEF PlainConnect, PlainStop
  <2>3. QED BY <2>1, <2>2 DEF HeldInv, TlsInv, netVars
<1>3. CASE AskAbort \/ TimeOut
  <2>1. /\ UNCHANGED <<opened, elsewhere, netVars, plainFd, tls>>
        /\ abort' \in BOOLEAN
    BY <1>3 DEF AskAbort, TimeOut, TlsInv
  <2>2. QED BY <2>1 DEF HeldInv, TlsInv, netVars
<1>4. CASE TlsConnect \/ TlsWriteStart \/ TlsRead \/ TlsStop \/ TlsStep
  <2>1. UNCHANGED <<elsewhere, netVars, plainFd>> /\ abort' = abort
    BY <1>4 DEF TlsConnect, TlsWriteStart, TlsRead, TlsStop, TlsStep
  <2>2. QED BY <1>4, <2>1, TlsCallStep DEF TlsStep
<1>5. QED BY <1>1, <1>2, <1>3, <1>4, NetStep DEF SocketsNext

(* For any number of descriptors, copies and Impls, each open descriptor   *)
(* has exactly one owner and no owner names a closed one, and a session of *)
(* OpenSSL stands on its own transport (NetworkClient::connect, stop,      *)
(* ~Impl; WiFiClient; SecureClient).                                       *)
THEOREM SocketsAreOwned == Spec => []SocketsOwned
<1>1. Init => SocketsInv
  <2> SUFFICES ASSUME SocketsInit PROVE SocketsInv
    BY DEF Init
  <2>1. FdInv
    BY DEF SocketsInit, FdInv, Owned, Fds
  <2>2. HeldInv /\ TlsInv
    BY DEF SocketsInit, HeldInv, TlsInv, TlsStates, Fds, Labels
  <2>3. QED BY <2>1, <2>2 DEF SocketsInv
<1>2. SocketsInv /\ [Next /\ UNCHANGED focus]_shimVars => SocketsInv'
  <2>1. CASE SocketsNext
    BY <2>1, SocketsStep
  <2>2. CASE UNCHANGED sockVars
    BY <2>2 DEF sockVars, netVars, SocketsInv, FdInv, HeldInv, TlsInv
  <2>3. QED BY <2>1, <2>2 DEF Next, shimVars
<1>3. QED BY <1>1, <1>2, OwnersFollow, PTL DEF Spec

-----------------------------------------------------------------------------
(* Codecs.                                                                 *)

USE DEF Octet, Sextet, Pad

(* The decoder's table undoes the alphabet, and = is not in the alphabet.  *)
LEMMA AlphabetDecodes ==
  ASSUME NEW v \in Sextet
  PROVE  /\ Dec(Alphabet(v)) = v
         /\ Alphabet(v) # Pad
BY DEF Dec, Alphabet

(* The symbols of a group stand together in the text.                      *)
LEMMA SymbolsPlaced ==
  ASSUME NEW data \in Seq(Octet), NEW g \in 1 .. Groups(Len(data)),
         NEW j \in 1 .. 4
  PROVE  SymbolAt(Base64Encode(data), g, j) = Symbol(data, g, j)
<1> DEFINE i == 4 * (g - 1) + j
<1>1. Len(data) \in Nat /\ Groups(Len(data)) \in Nat
  BY DEF Groups
<1>2. /\ i \in 1 .. 4 * Groups(Len(data))
      /\ ((i - 1) \div 4) + 1 = g
      /\ ((i - 1) % 4) + 1 = j
  BY <1>1
<1>3. Base64Encode(data)[i] = Symbol(data, ((i - 1) \div 4) + 1,
                                     ((i - 1) % 4) + 1)
  BY <1>2 DEF Base64Encode
<1>4. QED BY <1>2, <1>3 DEF SymbolAt

(* Bytes behind the end are zero, so all are bytes.                        *)
LEMMA OctetsTyped ==
  ASSUME NEW data \in Seq(Octet), NEW k \in Nat \ {0}
  PROVE  OctetAt(data, k) \in Octet
<1> HIDE DEF Octet
<1>1. CASE k <= Len(data)
  <2>1. k \in 1 .. Len(data)
    BY <1>1
  <2>2. QED BY <1>1, <2>1 DEF OctetAt
<1>2. CASE ~(k <= Len(data))
  BY <1>2 DEF OctetAt, Octet
<1>3. QED BY <1>1, <1>2

(* What the encoders write, the decoder reads: every group is valid and    *)
(* gives back its bytes, for data of any length (base64Encode,             *)
(* base64::encode, mbedtls_base64_decode).                                 *)
THEOREM Base64RoundTrip ==
  ASSUME NEW data \in Seq(Octet), NEW g \in 1 .. Groups(Len(data))
  PROVE  LET text == Base64Encode(data)
             first == 3 * (g - 1)
             count == IF first + 3 <= Len(data) THEN 3 ELSE Len(data) - first
         IN  /\ ~InvalidGroup(text, g)
             /\ Len(GroupBytes(text, g)) = count
             /\ \A k \in 1 .. count :
                  GroupBytes(text, g)[k] = data[first + k]
<1> HIDE DEF Octet, Sextet, Pad
<1>1. PICK text : text = Base64Encode(data)
  OBVIOUS
<1>2. PICK first \in Nat : first = 3 * (g - 1) /\ first + 1 <= Len(data)
  BY DEF Groups
<1>3. \A k \in 1 .. 3 : first + k \in Nat \ {0}
  BY <1>2
<1>4. \A k \in 1 .. 3 : OctetAt(data, first + k) \in Octet
  BY <1>3, OctetsTyped
<1>5. PICK b1 \in Octet : b1 = OctetAt(data, first + 1)
  BY <1>4
<1>6. PICK b2 \in Octet : b2 = OctetAt(data, first + 2)
  BY <1>4
<1>7. PICK b3 \in Octet : b3 = OctetAt(data, first + 3)
  BY <1>4
<1>8. PICK v1 \in Sextet : v1 = b1 \div 4
  BY DEF Octet, Sextet
<1>9. PICK v2 \in Sextet : v2 = 16 * (b1 % 4) + (b2 \div 16)
  BY DEF Octet, Sextet
<1>10. PICK v3 \in Sextet : v3 = 4 * (b2 % 16) + (b3 \div 64)
  BY DEF Octet, Sextet
<1>11. PICK v4 \in Sextet : v4 = b3 % 64
  BY DEF Octet, Sextet
<1>12. /\ 4 * v1 + (v2 \div 16) = b1
       /\ 16 * (v2 % 16) + (v3 \div 4) = b2
       /\ 64 * (v3 % 4) + v4 = b3
  <2>1. v2 \div 16 = b1 % 4 /\ v2 % 16 = b2 \div 16
    BY <1>9 DEF Octet
  <2>2. v3 \div 4 = b2 % 16 /\ v3 % 4 = b3 \div 64
    BY <1>10 DEF Octet
  <2>3. 4 * v1 + (v2 \div 16) = b1
    BY <1>8, <2>1 DEF Octet
  <2>4. 16 * (b2 \div 16) + (b2 % 16) = b2
    BY DEF Octet
  <2>5. 64 * (b3 \div 64) + (b3 % 64) = b3
    BY DEF Octet
  <2>6. QED BY <1>11, <2>1, <2>2, <2>3, <2>4, <2>5
<1>13. /\ Dec(Alphabet(v1)) = v1 /\ Dec(Alphabet(v2)) = v2
       /\ Dec(Alphabet(v3)) = v3 /\ Alphabet(v3) # Pad
       /\ Dec(Alphabet(v4)) = v4 /\ Alphabet(v4) # Pad
       /\ Dec(Pad) = -2
  <2>1. Dec(Pad) = -2
    BY DEF Dec, Pad
  <2>2. QED BY <2>1, AlphabetDecodes
<1>14. /\ SymbolAt(text, g, 1) = Alphabet(v1)
       /\ SymbolAt(text, g, 2) = Alphabet(v2)
       /\ SymbolAt(text, g, 3) = IF first + 2 <= Len(data)
                                 THEN Alphabet(v3) ELSE Pad
       /\ SymbolAt(text, g, 4) = IF first + 3 <= Len(data)
                                 THEN Alphabet(v4) ELSE Pad
  <2>1. Symbol(data, g, 1) = Alphabet(v1)
    BY <1>2, <1>5, <1>8 DEF Symbol
  <2>2. Symbol(data, g, 2) = Alphabet(v2)
    BY <1>2, <1>5, <1>6, <1>9 DEF Symbol
  <2>3. Symbol(data, g, 3) = IF first + 2 <= Len(data)
                             THEN Alphabet(v3) ELSE Pad
    BY <1>2, <1>6, <1>7, <1>10 DEF Symbol
  <2>4. Symbol(data, g, 4) = IF first + 3 <= Len(data)
                             THEN Alphabet(v4) ELSE Pad
    BY <1>2, <1>7, <1>11 DEF Symbol
  <2>5. \A j \in 1 .. 4 : SymbolAt(text, g, j) = Symbol(data, g, j)
    BY <1>1, SymbolsPlaced
  <2>6. QED BY <2>1, <2>2, <2>3, <2>4, <2>5
<1>15. \A k \in 1 .. 3 : first + k <= Len(data) =>
         OctetAt(data, first + k) = data[first + k]
  BY DEF OctetAt
<1>16. CASE first + 3 <= Len(data)
  <2>1. /\ SymbolAt(text, g, 3) = Alphabet(v3)
        /\ SymbolAt(text, g, 4) = Alphabet(v4)
    BY <1>14, <1>16
  <2>2. ~InvalidGroup(text, g)
    <3>1. /\ Dec(SymbolAt(text, g, 1)) = v1
          /\ Dec(SymbolAt(text, g, 2)) = v2
          /\ Dec(SymbolAt(text, g, 3)) = v3
          /\ Dec(SymbolAt(text, g, 4)) = v4
      BY <1>13, <1>14, <2>1
    <3>2. v1 \in Nat /\ v2 \in Nat /\ v3 \in Nat /\ v4 \in Nat
      BY DEF Sextet
    <3>3. QED BY <3>1, <3>2 DEF InvalidGroup
  <2>3. GroupBytes(text, g) = <<b1>> \o <<b2>> \o <<b3>>
    BY <1>12, <1>13, <1>14, <2>1 DEF GroupBytes
  <2>4. /\ data[first + 1] = b1 /\ data[first + 2] = b2
        /\ data[first + 3] = b3
    BY <1>5, <1>6, <1>7, <1>15, <1>16
  <2>5. QED BY <1>1, <1>2, <1>16, <2>2, <2>3, <2>4
<1>17. CASE first + 2 = Len(data)
  <2>1. /\ SymbolAt(text, g, 3) = Alphabet(v3)
        /\ SymbolAt(text, g, 4) = Pad
    BY <1>14, <1>17
  <2>2. ~InvalidGroup(text, g)
    <3>1. /\ Dec(SymbolAt(text, g, 1)) = v1
          /\ Dec(SymbolAt(text, g, 2)) = v2
          /\ Dec(SymbolAt(text, g, 3)) = v3
          /\ Dec(SymbolAt(text, g, 4)) = -2
      BY <1>13, <1>14, <2>1
    <3>2. v1 \in Nat /\ v2 \in Nat /\ v3 \in Nat /\ v4 \in Nat
      BY DEF Sextet
    <3>3. QED BY <3>1, <3>2 DEF InvalidGroup
  <2>3. GroupBytes(text, g) = <<b1>> \o <<b2>> \o <<>>
    BY <1>12, <1>13, <1>14, <2>1 DEF GroupBytes
  <2>4. data[first + 1] = b1 /\ data[first + 2] = b2
    BY <1>5, <1>6, <1>15, <1>17
  <2>5. QED BY <1>1, <1>2, <1>17, <2>2, <2>3, <2>4
<1>18. CASE first + 1 = Len(data)
  <2>1. /\ SymbolAt(text, g, 3) = Pad
        /\ SymbolAt(text, g, 4) = Pad
    BY <1>14, <1>18
  <2>2. ~InvalidGroup(text, g)
    <3>1. /\ Dec(SymbolAt(text, g, 1)) = v1
          /\ Dec(SymbolAt(text, g, 2)) = v2
          /\ Dec(SymbolAt(text, g, 3)) = -2
          /\ Dec(SymbolAt(text, g, 4)) = -2
      BY <1>13, <1>14, <2>1
    <3>2. v1 \in Nat /\ v2 \in Nat /\ v3 \in Nat /\ v4 \in Nat
      BY DEF Sextet
    <3>3. QED BY <3>1, <3>2 DEF InvalidGroup
  <2>3. GroupBytes(text, g) = <<b1>> \o <<>> \o <<>>
    BY <1>12, <1>13, <1>14, <2>1 DEF GroupBytes
  <2>4. data[first + 1] = b1
    BY <1>5, <1>15, <1>18
  <2>5. QED BY <1>1, <1>2, <1>18, <2>2, <2>3, <2>4
<1>19. Len(data) \in Nat
  OBVIOUS
<1>20. QED BY <1>2, <1>16, <1>17, <1>18, <1>19

(* Only what has no byte is padded.                                        *)
LEMMA SymbolPadded ==
  ASSUME NEW data \in Seq(Octet), NEW g \in Nat \ {0}, NEW j \in 1 .. 4
  PROVE  Symbol(data, g, j) = Pad <=> j > 2 /\ 3 * (g - 1) + j > Len(data) + 1
<1> HIDE DEF Octet, Sextet, Pad
<1>1. /\ 3 * (g - 1) + 1 \in Nat \ {0} /\ 3 * (g - 1) + 2 \in Nat \ {0}
      /\ 3 * (g - 1) + 3 \in Nat \ {0}
  OBVIOUS
<1>2. PICK b1 \in Octet : b1 = OctetAt(data, 3 * (g - 1) + 1)
  BY <1>1, OctetsTyped
<1>3. PICK b2 \in Octet : b2 = OctetAt(data, 3 * (g - 1) + 2)
  BY <1>1, OctetsTyped
<1>4. PICK b3 \in Octet : b3 = OctetAt(data, 3 * (g - 1) + 3)
  BY <1>1, OctetsTyped
<1>5. b1 \div 4 \in Sextet /\ b3 % 64 \in Sextet
  BY DEF Octet, Sextet
<1>6. 16 * (b1 % 4) + (b2 \div 16) \in Sextet
  BY DEF Octet, Sextet
<1>7. 4 * (b2 % 16) + (b3 \div 64) \in Sextet
  BY DEF Octet, Sextet
<1>8. /\ Alphabet(b1 \div 4) # Pad
      /\ Alphabet(16 * (b1 % 4) + (b2 \div 16)) # Pad
      /\ Alphabet(4 * (b2 % 16) + (b3 \div 64)) # Pad
      /\ Alphabet(b3 % 64) # Pad
  BY <1>5, <1>6, <1>7, AlphabetDecodes
<1>9. QED BY <1>2, <1>3, <1>4, <1>8 DEF Symbol

(* The decoder measures what the encoders wrote exactly: a buffer of the   *)
(* size of the data is enough, and a smaller one is refused                *)
(* (mbedtls_base64_decode: pad, outLen).                                   *)
THEOREM Base64Measured ==
  ASSUME NEW data \in Seq(Octet)
  PROVE  OutLen(Base64Encode(data)) = Len(data)
<1> HIDE DEF Octet, Sextet, Pad
<1>1. PICK n \in Nat : n = Len(data)
  OBVIOUS
<1>2. PICK G \in Nat : G = Groups(n)
  BY DEF Groups
<1>3. PICK text : text = Base64Encode(data)
  OBVIOUS
<1>4. /\ DOMAIN text = 1 .. 4 * G
      /\ Len(text) = 4 * G
  BY <1>1, <1>2, <1>3 DEF Base64Encode
<1>5. PICK S : S = {0} \cup {i \in DOMAIN text : text[i] # Pad}
  OBVIOUS
<1>6. OutLen(text) = 3 * G - (4 * G - Max(S))
  BY <1>4, <1>5 DEF OutLen, Padding
<1>7. ASSUME NEW m \in S, \A x \in S : x \in Int /\ x <= m
      PROVE  Max(S) = m
  BY <1>7 DEF Max
<1>8. CASE n = 0
  <2>1. G = 0
    BY <1>2, <1>8 DEF Groups
  <2>2. S = {0}
    BY <1>4, <1>5, <2>1
  <2>3. QED BY <1>1, <1>3, <1>6, <1>7, <1>8, <2>1, <2>2
<1>9. CASE n > 0
  <2>1. G > 0 /\ 3 * (G - 1) < n /\ n <= 3 * G
    BY <1>2, <1>9 DEF Groups
  <2>2. PICK m \in Nat : m = n + G
    OBVIOUS
  <2>3. \A j \in 1 .. 4 : SymbolAt(text, G, j) = Symbol(data, G, j)
    <3>1. G \in 1 .. Groups(Len(data))
      BY <1>1, <1>2, <2>1
    <3>2. QED BY <1>3, <3>1, SymbolsPlaced
  <2>4. \A j \in 1 .. 4 : text[4 * (G - 1) + j] = Pad
                          <=> j > 2 /\ 3 * (G - 1) + j > n + 1
    <3>1. G \in Nat \ {0}
      BY <2>1
    <3>2. QED BY <1>1, <2>3, <3>1, SymbolPadded DEF SymbolAt
  <2>5. m \in S
    <3>1. m - 4 * (G - 1) \in 1 .. 4 /\ m \in 1 .. 4 * G
      BY <2>1, <2>2
    <3>2. text[4 * (G - 1) + (m - 4 * (G - 1))] # Pad
      BY <2>2, <2>4, <3>1
    <3>3. QED BY <1>4, <1>5, <2>2, <3>1, <3>2
  <2>6. ASSUME NEW x \in S PROVE x \in Int /\ x <= m
    <3>1. CASE x = 0
      BY <3>1
    <3>2. CASE x \in 1 .. 4 * G /\ text[x] # Pad
      <4>1. CASE x <= m
        BY <3>2, <4>1
      <4>2. CASE x > m
        <5>1. PICK j \in 1 .. 4 : /\ 4 * (G - 1) + j = x
                                  /\ j > 2 /\ 3 * (G - 1) + j > n + 1
          <6>1. /\ x - 4 * (G - 1) \in 1 .. 4
                /\ x - 4 * (G - 1) > 2
                /\ 3 * (G - 1) + (x - 4 * (G - 1)) > n + 1
                /\ 4 * (G - 1) + (x - 4 * (G - 1)) = x
            BY <2>1, <2>2, <3>2, <4>2
          <6>2. QED BY <6>1
        <5>2. QED BY <2>4, <3>2, <5>1
      <4>3. QED BY <3>2, <4>1, <4>2
    <3>3. QED BY <1>4, <1>5, <3>1, <3>2
  <2>7. Max(S) = m
    BY <1>7, <2>5, <2>6
  <2>8. QED BY <1>1, <1>3, <1>6, <2>2, <2>7
<1>10. QED BY <1>8, <1>9
=============================================================================

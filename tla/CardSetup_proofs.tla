-------------------------- MODULE CardSetup_proofs --------------------------
(***************************************************************************)
(* Theorems about CardSetup, for any PINs and policies: what holds of the  *)
(* card whatever commands are run, with right and wrong PINs, and wherever *)
(* they stop.                                                              *)
(***************************************************************************)
EXTENDS CardSetup, TLAPS

\* A running setup knows what it has done so far: before its own change of the admin
\* PIN one presentation may have cost a try; after it the PINs are the ones it has set.
SetupSoFar ==
  /\ setup.factory => setup.curAdmin = Factory
  /\ At("kdf") => adminTries >= setup.before
  /\ At("admin") => adminTries + 1 >= setup.before
  /\ setup.step \in {"user", "name", "url", "display"} =>
       adminTries >= setup.before /\ admin = setup.newAdmin
  /\ setup.step \in {"name", "url", "display"} /\ setup.curUser # NoPin => user = setup.newUser

Todos == {<<"sig", "dec", "aut">>, <<"dec", "aut">>, <<"aut">>, <<>>}
Undone(todo) == {todo[i] : i \in DOMAIN todo}

\* A running `card provision` or `card touch` has not been refused yet.
JobSoFar ==
  job # NoJob =>
    /\ adminTries >= job.before
    /\ job.name = "provision" => job.pin # Factory
    /\ job.todo \in Todos
    /\ job.name = "touch" => \A op \in AllSlots \ Undone(job.todo) : touch[op] = job.policy

\* One command at a time has the card.
OneCommand == At("idle") \/ job = NoJob

\* The inductive invariant.
CInv == TypeOK /\ SetupSoFar /\ JobSoFar /\ OneCommand

\* The operations in the order of their turn.
LEMMA TodoSteps ==
  ASSUME NEW todo \in Todos, todo # <<>>
  PROVE  /\ Head(todo) \in AllSlots /\ Tail(todo) \in Todos
         /\ Undone(todo) \subseteq AllSlots
         /\ Undone(todo) \subseteq Undone(Tail(todo)) \cup {Head(todo)}
<1>1. CASE todo = <<"sig", "dec", "aut">>
  <2>1. Head(todo) = "sig" /\ Tail(todo) = <<"dec", "aut">>
    BY <1>1
  <2>2. Undone(todo) = {"sig", "dec", "aut"} /\ Undone(<<"dec", "aut">>) = {"dec", "aut"}
    BY <1>1 DEF Undone
  <2> QED
    BY <2>1, <2>2 DEF Todos, AllSlots
<1>2. CASE todo = <<"dec", "aut">>
  <2>1. Head(todo) = "dec" /\ Tail(todo) = <<"aut">>
    BY <1>2
  <2>2. Undone(todo) = {"dec", "aut"} /\ Undone(<<"aut">>) = {"aut"}
    BY <1>2 DEF Undone
  <2> QED
    BY <2>1, <2>2 DEF Todos, AllSlots
<1>3. CASE todo = <<"aut">>
  <2>1. Head(todo) = "aut" /\ Tail(todo) = <<>>
    BY <1>3
  <2>2. Undone(todo) = {"aut"}
    BY <1>3 DEF Undone
  <2> QED
    BY <2>1, <2>2 DEF Todos, AllSlots
<1> QED
  BY <1>1, <1>2, <1>3 DEF Todos

\* A PIN of the right length is a PIN, and the factory ones are of the right length.
LEMMA GoodPinFacts == GoodPins \subseteq Pins /\ Factory \in GoodPins
BY PinAssumption DEF GoodPins, Pins

\* A card that is new, or has PINs of its owner.
LEMMA InitInvariant == Init => CInv
<1> SUFFICES ASSUME Init PROVE CInv
  OBVIOUS
<1>1. TypeOK
  <2>1. admin \in Pins /\ user \in Pins /\ known \in SUBSET Pins
    BY DEF Init, Pins
  <2>2. touch \in [AllSlots -> Policies] /\ keys \in SUBSET AllSlots /\ kdf \in BOOLEAN
    BY PolicyAssumption DEF Init
  <2>3. setup = Idle /\ job = NoJob /\ adminTries \in 0..MaxTries /\ userTries \in 0..MaxTries
    BY DEF Init, MaxTries
  <2> QED
    BY <2>1, <2>2, <2>3, GoodPinFacts DEF TypeOK, MaxTries, Idle
<1>2. SetupSoFar /\ JobSoFar /\ OneCommand
  BY DEF Init, SetupSoFar, JobSoFar, OneCommand, At, Idle
<1> QED
  BY <1>1, <1>2 DEF CInv

\* What the card makes of a PIN leaves the tries in their range and costs one at most.
LEMMA TriesBounded ==
  ASSUME TypeOK
  PROVE  /\ adminTries \in 0..3 /\ userTries \in 0..3 /\ MaxTries = 3
         /\ AdminWrong => adminTries' \in 0..3 /\ adminTries' + 1 >= adminTries
         /\ UserWrong => userTries' \in 0..3
BY DEF TypeOK, MaxTries, AdminWrong, UserWrong

LEMMA KnownGood == ASSUME TypeOK PROVE Parsed(known) = known \cap GoodPins
BY DEF TypeOK, Parsed, GoodPins

\* The commands that begin a setup, a provision or a change of the touch policies,
\* and the reset of the card.
LEMMA CommandStep ==
  ASSUME CInv, Commands
  PROVE  CInv'
<1> USE DEF CInv
<1>1. CASE Begin
  <2>1. PICK factory \in BOOLEAN,
             curAdmin \in Parsed(known), curUser \in Parsed(known) \cup {NoPin},
             newAdmin, newUser \in Parsed({Factory} \cup Chosen \cup Foreign) \cup NewPins :
          setup' = [step |-> "kdf", factory |-> factory,
                    curAdmin |-> IF factory THEN Factory ELSE curAdmin,
                    curUser |-> IF factory THEN Factory ELSE curUser,
                    newAdmin |-> newAdmin, newUser |-> newUser, before |-> adminTries]
    BY <1>1 DEF Begin
  <2>2. UNCHANGED <<card, known, job>> /\ job = NoJob
    BY <1>1 DEF Begin, Free
  <2>3. /\ curAdmin \in GoodPins /\ curUser \in GoodPins \cup {NoPin}
        /\ newAdmin \in GoodPins /\ newUser \in GoodPins
    BY PinAssumption DEF Parsed, NewPins, Pins, GoodPins, TypeOK
  <2>4. setup' \in [step : {"idle", "kdf", "admin", "user", "name", "url", "display"},
                    factory : BOOLEAN, curAdmin : GoodPins, curUser : GoodPins \cup {NoPin},
                    newAdmin : GoodPins, newUser : GoodPins, before : 0..MaxTries]
    BY <2>1, <2>3, GoodPinFacts DEF TypeOK
  <2>5. TypeOK'
    BY <2>2, <2>4 DEF TypeOK, card
  <2>6. SetupSoFar'
    BY <2>1, <2>2, TriesBounded DEF SetupSoFar, At, card
  <2> QED
    BY <2>2, <2>5, <2>6 DEF JobSoFar, OneCommand, card
<1>2. ASSUME NEW name \in {"provision", "touch"}, NEW pin \in known \cap GoodPins, NEW policy \in Policies,
             name = "provision" => pin # Factory, BeginJob(name, pin, policy)
      PROVE  CInv'
  <2>1. /\ job' = [name |-> name, pin |-> pin, todo |-> Slots, policy |-> policy,
                   before |-> adminTries]
        /\ UNCHANGED <<card, known, setup>> /\ At("idle")
    BY <1>2 DEF BeginJob, Free
  <2>2. Slots \in Seq(AllSlots) /\ Slots \in Todos /\ Undone(Slots) = AllSlots
    BY DEF Slots, AllSlots, Todos, Undone
  <2>3. TypeOK'
    BY <2>1, <2>2 DEF TypeOK, card
  <2>4. /\ job'.todo = Slots /\ job'.before = adminTries /\ job'.name = name /\ job'.pin = pin
        /\ adminTries' = adminTries
    BY <2>1 DEF card
  <2>5. JobSoFar'
    BY <1>2, <2>2, <2>4, TriesBounded DEF JobSoFar
  <2> QED
    BY <2>1, <2>3, <2>5 DEF SetupSoFar, OneCommand, At, card
<1>3. CASE BeginProvision
  BY <1>2, <1>3, PolicyAssumption, KnownGood DEF BeginProvision
<1>4. CASE BeginTouch
  BY <1>2, <1>4, KnownGood DEF BeginTouch
<1>5. CASE Reset
  <2>1. TypeOK'
    <3>1. touch' \in [AllSlots -> Policies]
      BY <1>5, PolicyAssumption DEF Reset, FactoryReset
    <3>2. /\ admin' = Factory /\ user' = Factory /\ keys' = {}
          /\ adminTries' = MaxTries /\ userTries' = MaxTries
      BY <1>5 DEF Reset, FactoryReset
    <3>4. kdf' \in BOOLEAN
      BY <1>5, Zenon DEF Reset, FactoryReset
    <3>5. /\ admin' \in Pins /\ user' \in Pins /\ keys' \in SUBSET AllSlots
          /\ adminTries' \in 0..MaxTries /\ userTries' \in 0..MaxTries
      BY <3>2 DEF Pins, MaxTries
    <3>3. known' = known /\ setup' = setup /\ job' = job
      BY <1>5 DEF Reset
    <3> QED
      BY <3>1, <3>3, <3>4, <3>5 DEF TypeOK
  <2> QED
    BY <1>5, <2>1 DEF Reset, Free, SetupSoFar, JobSoFar, OneCommand, At
<1> QED
  BY <1>1, <1>3, <1>4, <1>5 DEF Commands

\* What is left when no command runs any more: only types.
LEMMA EndedInvariant ==
  ASSUME admin' \in Pins, user' \in Pins, adminTries' \in 0..3, userTries' \in 0..3,
         kdf' \in BOOLEAN, keys' \in SUBSET AllSlots, touch' \in [AllSlots -> Policies],
         known' \in SUBSET Pins, setup' = Idle, job' = NoJob
  PROVE  CInv'
<1>1. /\ setup'.step = "idle" /\ ~setup'.factory
      /\ setup' \in [step : {"idle", "kdf", "admin", "user", "name", "url", "display"},
                      factory : BOOLEAN, curAdmin : GoodPins, curUser : GoodPins \cup {NoPin},
                      newAdmin : GoodPins, newUser : GoodPins, before : 0..MaxTries]
  BY GoodPinFacts DEF Idle, MaxTries
<1>2. TypeOK'
  BY <1>1 DEF TypeOK, MaxTries
<1> QED
  BY <1>1, <1>2 DEF CInv, SetupSoFar, JobSoFar, OneCommand, At

\* The end of a command, however it ends.
LEMMA EndStep ==
  ASSUME CInv, Abort
  PROVE  CInv'
<1>1. UNCHANGED <<card, known>> /\ setup' = Idle /\ job' = NoJob /\ TypeOK
  BY DEF CInv, Abort, End
<1> QED
  BY <1>1, EndedInvariant DEF card, TypeOK, MaxTries

\* The steps of `card setup`.  A right PIN restores the tries, and a wrong admin PIN
\* costs one in the KDF step and one in the change, which then ends the command.
LEMMA SetupTakesStep ==
  ASSUME CInv, SetupStep
  PROVE  CInv'
<1> USE DEF CInv
<1>1. ~At("idle") /\ job = NoJob /\ job' = job /\ NoJob = NoJob
  BY DEF SetupStep, EnableKdf, ChangeAdminPin, ChangeUserPin, SetName, SetUrl, SetField,
         Display, OneCommand, At
<1>2. CASE EnableKdf
  <2>1. /\ setup' = [setup EXCEPT !.step = "admin"] /\ At("kdf")
        /\ adminTries' \in 0..3 /\ adminTries' + 1 >= adminTries
        /\ UNCHANGED <<admin, user, userTries, keys, touch, known>>
    <3>1. adminTries' \in 0..3 /\ adminTries' + 1 >= adminTries
      <4>1. CASE adminTries' = adminTries
        BY <4>1, TriesBounded
      <4>2. CASE adminTries' = MaxTries
        BY <4>2, TriesBounded
      <4>3. CASE AdminWrong
        BY <4>3, TriesBounded
      <4> QED
        BY <1>2, <4>1, <4>2, <4>3 DEF EnableKdf, PutKdf
    <3> QED
      BY <1>2, <3>1 DEF EnableKdf, Goto
  <2>2. kdf' \in BOOLEAN
    BY <1>2, Zenon DEF EnableKdf, PutKdf, TypeOK
  <2>3. TypeOK'
    BY <1>1, <2>1, <2>2, TriesBounded DEF TypeOK
  <2>4. SetupSoFar'
    BY <2>1, TriesBounded DEF SetupSoFar, At, TypeOK
  <2> QED
    BY <1>1, <2>3, <2>4 DEF JobSoFar, OneCommand
<1>3. CASE ChangeAdminPin
  <2>1. CASE AdminRight(setup.curAdmin)
    <3>1. /\ admin' = setup.newAdmin /\ adminTries' = 3 /\ At("admin")
          /\ setup' = [setup EXCEPT !.step = "user"]
          /\ UNCHANGED <<user, userTries, kdf, keys, touch, known>>
      BY <1>3, <2>1 DEF ChangeAdminPin, Goto, MaxTries
    <3>2. TypeOK'
      BY <1>1, <3>1, TriesBounded, GoodPinFacts DEF TypeOK
    <3>3. SetupSoFar'
      BY <3>1, TriesBounded DEF SetupSoFar, At, TypeOK
    <3> QED
      BY <1>1, <3>2, <3>3 DEF JobSoFar, OneCommand
  <2>2. CASE ~AdminRight(setup.curAdmin)
    <3>1. /\ setup' = Idle /\ adminTries' \in 0..3
          /\ UNCHANGED <<admin, user, userTries, kdf, keys, touch, known>>
      BY <1>3, <2>2, TriesBounded DEF ChangeAdminPin, End
    <3> QED
      BY <1>1, <3>1, EndedInvariant DEF TypeOK, MaxTries
  <2> QED
    BY <2>1, <2>2
<1>4. CASE ChangeUserPin
  <2>1. UNCHANGED <<admin, adminTries, kdf, keys, touch, known>> /\ At("user")
    BY <1>4 DEF ChangeUserPin
  <2>2. CASE setup' = [setup EXCEPT !.step = "name"]
    <3>1. /\ user' \in Pins /\ userTries' \in 0..3
          /\ setup.curUser # NoPin => user' = setup.newUser
      BY <1>4, <2>1, <2>2, TriesBounded, GoodPinFacts
         DEF ChangeUserPin, TypeOK, Goto, End, At, Idle, MaxTries
    <3>2. TypeOK'
      BY <1>1, <2>1, <2>2, <3>1, TriesBounded DEF TypeOK
    <3>3. SetupSoFar'
      BY <2>1, <2>2, <3>1 DEF SetupSoFar, At, TypeOK
    <3> QED
      BY <1>1, <3>2, <3>3 DEF JobSoFar, OneCommand
  <2>3. CASE setup' = Idle
    <3>1. user' \in Pins /\ userTries' \in 0..3
      BY <1>4, TriesBounded, GoodPinFacts DEF ChangeUserPin, TypeOK, MaxTries
    <3> QED
      BY <1>1, <2>1, <2>3, <3>1, EndedInvariant DEF TypeOK, MaxTries
  <2> QED
    BY <1>4, <2>2, <2>3 DEF ChangeUserPin, Goto, End
<1>5. ASSUME NEW field \in {"name", "url"}, NEW next \in {"url", "display"},
             SetField(field, next)
      PROVE  CInv'
  <2>1. /\ setup' = [setup EXCEPT !.step = next] /\ setup.step = field
        /\ adminTries' \in 0..3 /\ adminTries' >= adminTries
        /\ UNCHANGED <<admin, user, userTries, kdf, keys, touch, known>>
    BY <1>5, TriesBounded DEF SetField, Goto, At
  <2>2. TypeOK'
    BY <1>1, <2>1, TriesBounded DEF TypeOK
  <2>3. SetupSoFar'
    BY <2>1, TriesBounded DEF SetupSoFar, At, TypeOK
  <2> QED
    BY <1>1, <2>2, <2>3 DEF JobSoFar, OneCommand
<1>6. CASE SetName \/ SetUrl
  BY <1>5, <1>6 DEF SetName, SetUrl
<1>7. CASE Display
  <2>1. /\ setup' = Idle /\ known' \in SUBSET Pins
        /\ UNCHANGED <<admin, user, adminTries, userTries, kdf, keys, touch>>
    BY <1>7, GoodPinFacts DEF Display, Shown, TypeOK, End, card
  <2> QED
    BY <1>1, <2>1, EndedInvariant DEF TypeOK, MaxTries
<1> QED
  BY <1>2, <1>3, <1>4, <1>6, <1>7 DEF SetupStep

\* The calls of `card provision` and `card touch`.  A right PIN restores the tries and
\* a wrong one costs one and ends the command.
LEMMA JobTakesStep ==
  ASSUME CInv, JobStep
  PROVE  CInv'
<1> USE DEF CInv
<1>1. job # NoJob /\ At("idle") /\ UNCHANGED <<admin, user, userTries, kdf, known, setup>>
  BY DEF JobStep, ImportSubkey, SetTouch, JobDone, Doing, NoJob, OneCommand, card
<1>2. ASSUME adminTries' \in 0..3, keys' \in SUBSET AllSlots,
             touch' \in [AllSlots -> Policies], job' = NoJob
      PROVE  CInv'
  <2>1. TypeOK'
    BY <1>1, <1>2, TriesBounded DEF TypeOK
  <2> QED
    BY <1>1, <1>2, <2>1 DEF SetupSoFar, JobSoFar, OneCommand, At
<1>3. ASSUME NEW name \in {"provision", "touch"}, Doing(name), NextSlot, adminTries' = 3,
             keys' \in SUBSET AllSlots, touch' \in [AllSlots -> Policies],
             name = "touch" => touch' = [touch EXCEPT ![Head(job.todo)] = job.policy]
      PROVE  CInv'
  <2>1. /\ job.name = name /\ job.pin \in known /\ job.todo \in Seq(AllSlots)
        /\ job.policy \in Policies /\ job.before \in 0..MaxTries
        /\ job.todo \in Todos /\ job.todo # <<>>
    BY <1>1, <1>3 DEF Doing, JobSoFar, TypeOK
  <2>2. /\ job'.name = job.name /\ job'.pin = job.pin /\ job'.todo = Tail(job.todo)
        /\ job'.policy = job.policy /\ job'.before = job.before
    BY <1>1, <1>3, <2>1 DEF NextSlot, TypeOK
  <2>3. Head(job.todo) \in AllSlots /\ Tail(job.todo) \in Todos
    BY <2>1, TodoSteps
  <2>4. TypeOK'
    BY <1>1, <1>3, <2>1, <2>2, TriesBounded DEF TypeOK
  <2>5. JobSoFar'
    <3>1. job'.name = "touch" =>
            \A op \in AllSlots \ Undone(job'.todo) : touch'[op] = job'.policy
      <4> SUFFICES ASSUME name = "touch", NEW op \in AllSlots,
                          op \notin Undone(Tail(job.todo))
                   PROVE  touch'[op] = job.policy
        BY <2>1, <2>2
      <4>1. op \notin Undone(job.todo) \/ op = Head(job.todo)
        BY <2>1, TodoSteps
      <4>2. op # Head(job.todo) => touch[op] = job.policy
        BY <1>1, <2>1, <4>1 DEF JobSoFar
      <4> QED
        BY <1>3, <2>3, <4>2 DEF TypeOK
    <3> QED
      BY <1>1, <1>3, <2>1, <2>2, <2>3, <3>1, TriesBounded DEF JobSoFar
  <2> QED
    BY <1>1, <2>4, <2>5, TriesBounded DEF SetupSoFar, OneCommand, At
<1>4. CASE ImportSubkey
  <2>1. job.name = "provision" /\ Doing("provision") /\ touch' = touch
    BY <1>4 DEF ImportSubkey, Doing
  <2>2. CASE AdminRight(job.pin)
    <3>1. adminTries' = 3 /\ keys' = keys \cup {Head(job.todo)} /\ NextSlot
      BY <1>4, <2>2 DEF ImportSubkey, MaxTries
    <3>2. Head(job.todo) \in AllSlots
      BY <1>1, <2>1, TodoSteps DEF JobSoFar, Doing
    <3> QED
      BY <1>3, <2>1, <3>1, <3>2 DEF TypeOK
  <2>3. CASE ~AdminRight(job.pin)
    BY <1>2, <1>4, <2>1, <2>3, TriesBounded DEF ImportSubkey, TypeOK
  <2> QED
    BY <2>2, <2>3
<1>5. CASE SetTouch
  <2>1. job.name = "touch" /\ Doing("touch") /\ keys' = keys
    BY <1>5 DEF SetTouch, Doing
  <2>2. CASE job' = NoJob
    <3>1. touch' = touch /\ adminTries' \in 0..3
      BY <1>1, <1>5, <2>2, TriesBounded DEF SetTouch, NextSlot, NoJob, TypeOK, Doing
    <3> QED
      BY <1>2, <2>1, <2>2, <3>1 DEF TypeOK
  <2>3. CASE job' # NoJob
    <3>1. /\ adminTries' = 3 /\ NextSlot
          /\ touch' = [touch EXCEPT ![Head(job.todo)] = job.policy]
      BY <1>5, <2>3 DEF SetTouch, MaxTries
    <3>2. job.policy \in Policies
      BY <1>1 DEF TypeOK
    <3>3. touch' \in [AllSlots -> Policies]
      BY <3>1, <3>2 DEF TypeOK
    <3> QED
      BY <1>3, <2>1, <3>1, <3>3 DEF TypeOK
  <2> QED
    BY <2>2, <2>3
<1>6. CASE JobDone
  BY <1>2, <1>6, TriesBounded DEF JobDone, card, TypeOK
<1> QED
  BY <1>4, <1>5, <1>6 DEF JobStep

\* The invariant is inductive.
LEMMA StepInvariant == CInv /\ [Next]_vars => CInv'
<1> SUFFICES ASSUME CInv, [Next]_vars PROVE CInv'
  OBVIOUS
<1>1. CASE Next
  BY <1>1, CommandStep, SetupTakesStep, JobTakesStep, EndStep DEF Next
<1>2. CASE UNCHANGED vars
  BY <1>2 DEF vars, card, CInv, TypeOK, SetupSoFar, JobSoFar, OneCommand, At
<1> QED
  BY <1>1, <1>2

\* What holds of the card and of a running command, after any commands.
THEOREM Invariant == Spec => []CInv
BY InitInvariant, StepInvariant, PTL DEF Spec

\* Every variable has its type.
THEOREM TypeCorrect == Spec => []TypeOK
BY Invariant, PTL DEF CInv

\* When `card touch` reports success, every operation has the policy (run_touch),
\* whatever earlier commands have left on the card.
THEOREM TouchIsSetForAll == Spec => []TouchSetForAll
<1>1. CInv => TouchSetForAll
  BY DEF CInv, JobSoFar, TouchSetForAll, Undone
<1> QED
  BY <1>1, Invariant, PTL

\* Two wrong presentations cost two tries.
LEMMA TriesAdd ==
  ASSUME NEW before \in 0..3, NEW tries \in 0..3, NEW after \in 0..3, after + 1 >= tries
  PROVE  /\ tries >= before => after + 1 >= before /\ after + 2 >= before
         /\ tries + 1 >= before => after + 2 >= before
OBVIOUS

\* No run of `card setup`, `card provision` or `card touch` takes more tries of the
\* admin PIN than two and one: the key of a full set is never lost to one command.
THEOREM NeverBlocksInOneRun == Spec => OneRunNeverBlocks
<1>1. CInv /\ [Next]_vars =>
        [/\ ~At("idle") => adminTries' + 2 >= setup.before
         /\ job # NoJob => adminTries' + 1 >= job.before]_vars
  <2> SUFFICES ASSUME CInv, [Next]_vars
               PROVE  /\ ~At("idle") => adminTries' + 2 >= setup.before
                      /\ job # NoJob => adminTries' + 1 >= job.before
    OBVIOUS
  <2>1. /\ adminTries \in 0..3 /\ setup.before \in 0..3
        /\ job # NoJob => job.before \in 0..3
        /\ setup.step \in {"idle", "kdf", "admin", "user", "name", "url", "display"}
    BY DEF CInv, TypeOK, MaxTries
  <2>2. ASSUME adminTries' \in 0..3, adminTries' >= adminTries
        PROVE  /\ ~At("idle") => adminTries' + 2 >= setup.before
               /\ job # NoJob => adminTries' + 1 >= job.before
    BY <2>1, <2>2 DEF CInv, SetupSoFar, JobSoFar, At
  <2>3. CASE UNCHANGED vars \/ Begin \/ BeginProvision \/ BeginTouch \/ Abort
    BY <2>1, <2>2, <2>3 DEF vars, card, Begin, BeginProvision, BeginTouch, BeginJob, Abort
  <2>4. CASE Reset
    BY <2>1, <2>2, <2>4 DEF Reset, FactoryReset, MaxTries
  <2>5. CASE EnableKdf
    <3>1. At("kdf") /\ job = NoJob /\ adminTries >= setup.before
      BY <2>5 DEF EnableKdf, CInv, SetupSoFar, OneCommand, At
    <3>2. adminTries' \in 0..3 /\ adminTries' + 1 >= adminTries
      <4>1. CASE adminTries' = adminTries \/ adminTries' = MaxTries
        BY <2>1, <4>1 DEF MaxTries
      <4>2. CASE AdminWrong
        BY <4>2, TriesBounded DEF CInv
      <4> QED
        BY <2>5, <4>1, <4>2 DEF EnableKdf, PutKdf
    <3> QED
      BY <2>1, <3>1, <3>2, TriesAdd
  <2>6. CASE ChangeAdminPin
    <3>1. At("admin") /\ job = NoJob /\ adminTries + 1 >= setup.before
      BY <2>6 DEF ChangeAdminPin, CInv, SetupSoFar, OneCommand, At
    <3>2. adminTries' \in 0..3 /\ adminTries' + 1 >= adminTries
      BY <2>1, <2>6, TriesBounded DEF ChangeAdminPin, CInv, MaxTries
    <3> QED
      BY <2>1, <3>1, <3>2, TriesAdd
  <2>7. CASE ChangeUserPin \/ Display \/ JobDone
    BY <2>1, <2>2, <2>7 DEF ChangeUserPin, Display, JobDone, card
  <2>8. CASE SetName \/ SetUrl
    BY <2>1, <2>2, <2>8 DEF SetName, SetUrl, SetField, MaxTries
  <2>9. CASE ImportSubkey \/ SetTouch
    <3>1. job # NoJob /\ At("idle") /\ adminTries >= job.before
      BY <2>9 DEF ImportSubkey, SetTouch, Doing, NoJob, CInv, JobSoFar, OneCommand
    <3>2. adminTries' \in 0..3 /\ adminTries' + 1 >= adminTries
      BY <2>1, <2>9, TriesBounded DEF ImportSubkey, SetTouch, CInv, MaxTries
    <3> QED
      BY <2>1, <3>1, <3>2, TriesAdd
  <2> QED
    BY <2>3, <2>4, <2>5, <2>6, <2>7, <2>8, <2>9 DEF Next, Commands, SetupStep, JobStep
<1> QED
  BY <1>1, Invariant, PTL DEF Spec, OneRunNeverBlocks

\* A PIN that is shown is on the card, so the user PIN of a setup that left it alone
\* is not shown (CardSetupResult).
THEOREM PinsThatAreShownWork == Spec => ShownPinsWork
<1>1. CInv /\ [Next]_vars => [\A pin \in known' \ known : pin \in {admin, user}]_vars
  <2> SUFFICES ASSUME CInv, [Next]_vars, NEW pin \in known', pin \notin known
               PROVE  pin \in {admin, user}
    OBVIOUS
  <2>1. Display
    BY DEF Next, Commands, SetupStep, JobStep, vars, Begin, BeginProvision, BeginTouch,
           BeginJob, Reset, Abort, EnableKdf, ChangeAdminPin, ChangeUserPin, SetName, SetUrl,
           SetField, ImportSubkey, SetTouch, JobDone
  <2>2. setup.step = "display" /\ pin \in Shown
    BY <2>1 DEF Display, At
  <2> QED
    BY <2>2 DEF CInv, SetupSoFar, Shown
<1> QED
  BY <1>1, Invariant, PTL DEF Spec, ShownPinsWork

\* The KDF object goes to the card only while the admin PIN is the factory one.
THEOREM KdfComesBeforePins == Spec => KdfBeforePins
<1>1. CInv /\ [Next]_vars => [kdf' # kdf /\ kdf' => admin = Factory]_vars
  <2> SUFFICES ASSUME CInv, [Next]_vars, kdf' # kdf, kdf'
               PROVE  admin = Factory
    OBVIOUS
  <2>1. Reset => ~kdf'
    BY DEF Reset, FactoryReset
  <2>2. EnableKdf
    BY <2>1, Zenon DEF Next, Commands, SetupStep, JobStep, vars, card, Begin, BeginProvision,
           BeginTouch, BeginJob, Abort, ChangeAdminPin, ChangeUserPin, SetName, SetUrl,
           SetField, Display, ImportSubkey, SetTouch, JobDone
  <2>3. setup.factory /\ AdminRight(setup.curAdmin)
    BY <2>2, Zenon DEF EnableKdf, PutKdf
  <2> QED
    BY <2>3 DEF CInv, SetupSoFar, AdminRight
<1> QED
  BY <1>1, Invariant, PTL DEF Spec, KdfBeforePins

\* No subkey is imported into a card whose admin PIN is the factory one.
THEOREM ImportsNeedOwnAdminPin == Spec => ImportNeedsOwnAdminPin
<1>1. CInv /\ [Next]_vars => [~(keys' \subseteq keys) => admin # Factory]_vars
  <2> SUFFICES ASSUME CInv, [Next]_vars, ~(keys' \subseteq keys)
               PROVE  admin # Factory
    OBVIOUS
  <2>1. ImportSubkey
    BY DEF Next, Commands, SetupStep, JobStep, vars, card, Begin, BeginProvision,
           BeginTouch, BeginJob, Reset, FactoryReset, Abort, EnableKdf, ChangeAdminPin,
           ChangeUserPin, SetName, SetUrl, SetField, Display, SetTouch, JobDone
  <2>2. job.name = "provision" /\ AdminRight(job.pin)
    BY <2>1 DEF ImportSubkey, Doing
  <2> QED
    BY <2>2 DEF CInv, JobSoFar, NoJob, AdminRight
<1> QED
  BY <1>1, Invariant, PTL DEF Spec, ImportNeedsOwnAdminPin

=============================================================================

------------------------------ MODULE CardSetup ------------------------------
(***************************************************************************)
(* The smart card and its PINs: `card setup`, the imports of `card         *)
(* provision`, `card touch` and `card reset`, one card or ykman call at a  *)
(* time.  The card itself (its PINs, the three tries of each, what it does *)
(* on a wrong PIN, fixed touch policies) is external and modelled from how *)
(* PcscCardExecutor and RealYkmanExecutor use it.                          *)
(*                                                                         *)
(* A PIN is an abstract value: Factory stands for 12345678 and 123456, a   *)
(* generated PIN is one nobody has seen before.                            *)
(***************************************************************************)
EXTENDS Naturals, Sequences

CONSTANTS
  Factory,     \* the factory default PIN
  Chosen,      \* PINs the owner may supply
  Foreign,     \* PINs from other software that are not 8 and 6 digits long
  Generated,   \* bound: PINs that can be generated at random
  NoPin,       \* an option that was not given
  Policies     \* touch policies; all but "fixed" can be changed again

ASSUME PinAssumption ==
  /\ Factory \notin Chosen \cup Generated \cup Foreign
  /\ Chosen \cap Generated = {} /\ Foreign \cap (Chosen \cup Generated) = {}
  /\ NoPin \notin Chosen \cup Generated \cup Foreign \cup {Factory}

ASSUME PolicyAssumption == {"off", "fixed"} \subseteq Policies

Pins == {Factory} \cup Chosen \cup Generated \cup Foreign
\* AdminPin, UserPin: the ones of 8 and 6 digits.
GoodPins == Pins \ Foreign
MaxTries == 3

\* The slots for keys, and the operations that can need a touch, in the order of
\* `card provision` and `card touch`.
Slots == <<"sig", "dec", "aut">>
AllSlots == {"sig", "dec", "aut"}

VARIABLES
  admin, user,            \* the PINs on the card
  adminTries, userTries,  \* tries left, 0 when the PIN is blocked
  kdf,                    \* has the KDF object been written (algorithm byte 0)
  keys,                   \* the slots with a subkey
  touch,                  \* the touch policy of each operation
  known,                  \* PINs the owner has supplied or been shown
  setup,                  \* the running `card setup`, its options and new PINs
  job                     \* the running `card provision` or `card touch`

card == <<admin, user, adminTries, userTries, kdf, keys, touch>>
vars == <<card, known, setup, job>>

Idle == [step |-> "idle", factory |-> FALSE, curAdmin |-> Factory, curUser |-> NoPin,
         newAdmin |-> Factory, newUser |-> Factory, before |-> MaxTries]
NoJob == [name |-> "none"]

\* What `card reset` leaves, and a card comes with.
FactoryReset ==
  /\ admin' = Factory /\ user' = Factory
  /\ adminTries' = MaxTries /\ userTries' = MaxTries
  /\ kdf' = FALSE /\ keys' = {}
  /\ touch' = [op \in AllSlots |-> "off"]

\* A new card, or one whose owner has set PINs of their own.
Init ==
  /\ \/ admin = Factory /\ user = Factory
     \/ admin \in Chosen \cup Foreign /\ user \in Chosen \cup Foreign
  /\ adminTries = MaxTries /\ userTries = MaxTries
  /\ kdf = FALSE /\ keys = {}
  /\ touch = [op \in AllSlots |-> "off"]
  /\ known = {Factory} \cup Chosen \cup Foreign
  /\ setup = Idle /\ job = NoJob

At(step) == setup.step = step
Goto(step) == setup' = [setup EXCEPT !.step = step]
End == setup' = Idle

\* One command at a time has the card.
Free == At("idle") /\ job = NoJob

\* The card compares a PIN: a right one restores the tries, a wrong one costs one.
AdminRight(pin) == pin = admin /\ adminTries > 0
UserRight(pin) == pin = user /\ userTries > 0
AdminWrong == adminTries' = IF adminTries = 0 THEN 0 ELSE adminTries - 1
UserWrong == userTries' = IF userTries = 0 THEN 0 ELSE userTries - 1
-----------------------------------------------------------------------------
\* Mutant: a PIN of any length is taken.
ParsedAny(pins) == pins

\* AdminPin::from_str, UserPin::from_str: of the PINs typed, 8 and 6 digits are taken.
Parsed(pins) == pins \ Foreign

\* generate_admin_pin, generate_user_pin.
NewPins == Generated \ (known \cup {admin, user})

\* `card setup` up to the confirmation.  With --factory-pins the current PINs
\* are taken to be the factory ones; otherwise --admin-pin is required and
\* without --current-user-pin the user PIN is left alone.  A new PIN is supplied
\* or, without the option, generated.
Begin ==
  /\ Free
  /\ \E factory \in BOOLEAN,
        curAdmin \in Parsed(known), curUser \in Parsed(known) \cup {NoPin},
        newAdmin, newUser \in Parsed({Factory} \cup Chosen \cup Foreign) \cup NewPins :
       /\ newAdmin \in NewPins => newUser # newAdmin
       /\ setup' = [step |-> "kdf", factory |-> factory,
                    curAdmin |-> IF factory THEN Factory ELSE curAdmin,
                    curUser |-> IF factory THEN Factory ELSE curUser,
                    newAdmin |-> newAdmin, newUser |-> newUser, before |-> adminTries]
  /\ UNCHANGED <<card, known, job>>

\* PcscCardExecutor::enable_kdf, which not every card supports.
PutKdf(pin) ==
  \/ AdminRight(pin) /\ kdf' \in {kdf, TRUE} /\ adminTries' = MaxTries
  \/ ~AdminRight(pin) /\ AdminWrong /\ UNCHANGED kdf

\* Mutant: the KDF object is written whatever the PINs are.
EnableKdfAlways ==
  /\ At("kdf")
  /\ \/ UNCHANGED <<kdf, adminTries>>
     \/ PutKdf(setup.curAdmin)
  /\ Goto("admin")
  /\ UNCHANGED <<admin, user, userTries, keys, touch, known, job>>

\* Only with factory PINs and without --skip-kdf.  An error of this step, a wrong
\* PIN too, is only logged.
EnableKdf ==
  /\ At("kdf")
  /\ \/ UNCHANGED <<kdf, adminTries>>
     \/ setup.factory /\ PutKdf(setup.curAdmin)
  /\ Goto("admin")
  /\ UNCHANGED <<admin, user, userTries, keys, touch, known, job>>

\* Mutant: a wrong admin PIN is tried again.
ChangeAdminPinRetry ==
  /\ At("admin")
  /\ \/ /\ AdminRight(setup.curAdmin)
        /\ admin' = setup.newAdmin /\ adminTries' = MaxTries
        /\ Goto("user")
     \/ /\ ~AdminRight(setup.curAdmin)
        /\ AdminWrong /\ UNCHANGED admin
        /\ Goto("admin")
  /\ UNCHANGED <<user, userTries, kdf, keys, touch, known, job>>

ChangeAdminPin ==
  /\ At("admin")
  /\ \/ /\ AdminRight(setup.curAdmin)
        /\ admin' = setup.newAdmin /\ adminTries' = MaxTries
        /\ Goto("user")
     \/ /\ ~AdminRight(setup.curAdmin)
        /\ AdminWrong /\ UNCHANGED admin
        /\ End
  /\ UNCHANGED <<user, userTries, kdf, keys, touch, known, job>>

ChangeUserPin ==
  /\ At("user")
  /\ \/ /\ setup.curUser = NoPin
        /\ Goto("name") /\ UNCHANGED <<user, userTries>>
     \/ /\ setup.curUser # NoPin /\ UserRight(setup.curUser)
        /\ user' = setup.newUser /\ userTries' = MaxTries
        /\ Goto("name")
     \/ /\ setup.curUser # NoPin /\ ~UserRight(setup.curUser)
        /\ UserWrong /\ UNCHANGED user
        /\ End
  /\ UNCHANGED <<admin, adminTries, kdf, keys, touch, known, job>>

\* Name and URL are written under the new admin PIN, if they were given; the card
\* has just taken it, so it is right.  The fields themselves are left out.
SetField(field, next) ==
  /\ At(field)
  /\ Goto(next)
  /\ \/ UNCHANGED adminTries
     \/ AdminRight(setup.newAdmin) /\ adminTries' = MaxTries
  /\ UNCHANGED <<admin, user, userTries, kdf, keys, touch, known, job>>

SetName == SetField("name", "url")
SetUrl == SetField("url", "display")

\* Mutant: the user PIN is shown although it was left alone.
ShownAlways == {setup.newAdmin, setup.newUser}

\* The banner with the new PINs; it shows no user PIN when that was left alone.
Shown == {setup.newAdmin} \cup (IF setup.curUser = NoPin THEN {} ELSE {setup.newUser})

Display ==
  /\ At("display")
  /\ known' = known \cup Shown
  /\ End
  /\ UNCHANGED <<card, job>>

\* Killed, the card pulled out, or any other error of the card.
Abort ==
  /\ ~Free
  /\ End /\ job' = NoJob
  /\ UNCHANGED <<card, known>>
-----------------------------------------------------------------------------
(* `card provision` and `card touch`: a call for each slot, and every call *)
(* presents the admin PIN.                                                 *)

BeginJob(name, pin, policy) ==
  /\ Free
  /\ job' = [name |-> name, pin |-> pin, todo |-> Slots, policy |-> policy, before |-> adminTries]
  /\ UNCHANGED <<card, known, setup>>

Doing(name) == job.name = name /\ job.todo # <<>>
NextSlot == job' = [job EXCEPT !.todo = Tail(@)]

\* Mutant: the factory admin PIN is not refused.
BeginProvisionAnyPin ==
  \E pin \in Parsed(known) : BeginJob("provision", pin, "off")

\* prepare_provision refuses the factory admin PIN.
BeginProvision ==
  \E pin \in Parsed(known) \ {Factory} : BeginJob("provision", pin, "off")

ImportSubkey ==
  /\ Doing("provision")
  /\ \/ /\ AdminRight(job.pin) /\ adminTries' = MaxTries
        /\ keys' = keys \cup {Head(job.todo)}
        /\ NextSlot
     \/ /\ ~AdminRight(job.pin) /\ AdminWrong
        /\ job' = NoJob /\ UNCHANGED keys
  /\ UNCHANGED <<admin, user, userTries, kdf, touch, known, setup>>

\* After the confirmation, which for `fixed` takes a typed yes.
BeginTouch ==
  \E pin \in Parsed(known), policy \in Policies : BeginJob("touch", pin, policy)

\* Mutant: the others are tried after one that failed.
SetTouchGoesOn ==
  /\ Doing("touch")
  /\ \/ /\ AdminRight(job.pin) /\ adminTries' = MaxTries
        /\ touch' = IF touch[Head(job.todo)] = "fixed" THEN touch
                    ELSE [touch EXCEPT ![Head(job.todo)] = job.policy]
     \/ /\ ~AdminRight(job.pin) /\ AdminWrong
        /\ UNCHANGED touch
  /\ NextSlot
  /\ UNCHANGED <<admin, user, userTries, kdf, keys, known, setup>>

\* set_touch_policy for one operation; the first error ends the command.
SetTouch ==
  /\ Doing("touch")
  /\ \/ /\ AdminRight(job.pin) /\ adminTries' = MaxTries
        /\ touch[Head(job.todo)] # "fixed"
        /\ touch' = [touch EXCEPT ![Head(job.todo)] = job.policy]
        /\ NextSlot
     \/ /\ AdminRight(job.pin) /\ adminTries' = MaxTries
        /\ touch[Head(job.todo)] = "fixed"
        /\ job' = NoJob /\ UNCHANGED touch
     \/ /\ ~AdminRight(job.pin) /\ AdminWrong
        /\ job' = NoJob /\ UNCHANGED touch
  /\ UNCHANGED <<admin, user, userTries, kdf, keys, known, setup>>

\* Nothing is left to do, and the command reports success.
JobDone ==
  /\ job # NoJob /\ job.todo = <<>>
  /\ job' = NoJob
  /\ UNCHANGED <<card, known, setup>>

JobStep == ImportSubkey \/ SetTouch \/ JobDone
-----------------------------------------------------------------------------
\* `card reset`, once the serial number was typed.
Reset ==
  /\ Free
  /\ FactoryReset
  /\ UNCHANGED <<known, setup, job>>

SetupStep ==
  EnableKdf \/ ChangeAdminPin \/ ChangeUserPin \/ SetName \/ SetUrl \/ Display

Commands == Begin \/ BeginProvision \/ BeginTouch \/ Reset

Next == Commands \/ SetupStep \/ JobStep \/ Abort

Spec == Init /\ [][Next]_vars
\* Nothing is killed and the card does not fail, but PINs may be wrong.
SmoothSpec == Init /\ [][Commands \/ SetupStep \/ JobStep]_vars
-----------------------------------------------------------------------------
\* The type of every variable.  What other software has put on the card may be longer or
\* shorter, but no PIN that kdub presents to the card or sets (AdminPin, UserPin).
TypeOK ==
  /\ admin \in Pins /\ user \in Pins
  /\ adminTries \in 0..MaxTries /\ userTries \in 0..MaxTries
  /\ kdf \in BOOLEAN
  /\ keys \in SUBSET AllSlots /\ touch \in [AllSlots -> Policies]
  /\ known \in SUBSET Pins
  /\ setup \in [step : {"idle", "kdf", "admin", "user", "name", "url", "display"},
                factory : BOOLEAN, curAdmin : GoodPins, curUser : GoodPins \cup {NoPin},
                newAdmin : GoodPins, newUser : GoodPins, before : 0..MaxTries]
  /\ \/ job = NoJob
     \/ /\ job.name \in {"provision", "touch"} /\ job.pin \in known \cap GoodPins
        /\ job.todo \in Seq(AllSlots) /\ job.policy \in Policies
        /\ job.before \in 0..MaxTries

\* No single command blocks the admin PIN of a card with all its tries: one `card
\* setup` costs at most two (the KDF step and the change of the admin PIN both present
\* the current one, run_card_setup); `card provision` and `card touch` present it three
\* times and yet cost one, as the first error ends them.
OneRunNeverBlocks ==
  [][/\ ~At("idle") => adminTries' + 2 >= setup.before
     /\ job # NoJob => adminTries' + 1 >= job.before]_vars

\* When `card touch` says that the policy is set for all operations, it is, also after
\* an earlier `card touch` stopped half way and left some operations fixed (run_touch).
TouchSetForAll ==
  job # NoJob /\ job.name = "touch" /\ job.todo = <<>> =>
    \A op \in AllSlots : touch[op] = job.policy

\* The PINs in the banner are the ones on the card (CardSetupResult: no user PIN
\* may be displayed when the change was skipped).
ShownPinsWork ==
  [][\A pin \in known' \ known : pin \in {admin, user}]_vars

\* The KDF object is written only while the admin PIN is the factory one
\* (run_card_setup: "must happen while PINs are at factory defaults").
KdfBeforePins == [][kdf' # kdf /\ kdf' => admin = Factory]_vars

\* No subkey goes to a card whose admin PIN is the factory one: the check of the
\* PIN given (prepare_provision) and the card's own check of it cover each other.
ImportNeedsOwnAdminPin == [][~(keys' \subseteq keys) => admin # Factory]_vars

\* A PIN on the card that the owner has never seen is only there while a setup
\* that set it has yet to display it (CardSetupResult: "so the command handler
\* can display them to the user exactly once").
SetPinsAreDisplayed == At("idle") => {admin, user} \subseteq known
=============================================================================

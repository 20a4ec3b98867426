# A verification of kdub in TLA+

kdub manages one person's OpenPGP keys: it creates a key, backs it up, renews
and rotates its subkeys, moves them to a smart card, publishes the public key,
and prepares a Tails USB stick on which to do all that. It is a command line
program. Every command is a short-lived process; what lasts is files, a smart
card and USB sticks. Nothing is locked, files are truncated and filled in place,
and any command can die, or be refused, between two writes. What can go wrong is
therefore a matter of what the *next* command finds, and of two commands at once.

This directory holds TLA+ modules that model those commands step by step, TLC
configurations that check them on small instances, and proofs about all ten of
the models that TLAPS checks for all instances. `PROJECT.json` maps every
definition to the lines it models and lists the hazards.

Paths below are relative to `src/crates/kdub-lib/src` unless they say otherwise.

## The system

| component | source | state it keeps | operations | modelled |
|---|---|---|---|---|
| key lifecycle | keygen, backup, renew, rotate, stub, identity, card_provision, `kdub/src/commands/key.rs` | `identities/FP.key`, `identities/FP.json`, `backups/FP/` (five files) | create, backup, restore, renew, rotate, provision | the files in `KeyLifecycle` and `KeyCustody`, the packets in `KeyPackets` and `KeyExpiry`, which identity and which algorithm in `KeyCommands` |
| publish, WKD | publish, wkd | the key on a keyserver, on GitHub, in a directory, in a file | publish | `Publication` |
| card setup and reset | card, card_setup, card_reset, `kdub/src/commands/card.rs` | PINs, tries, KDF object, touch policies, key slots, all on the card | setup, the imports of provision, touch, reset | `CardSetup`; which generation is in a slot in `KeyLifecycle` |
| ykman | ykman | none | touch policy, firmware | the calls in `CardSetup`, the choice by firmware in `KeyCommands` |
| secret input, identity lookup | `kdub/src/secret_input.rs`, identity, types | none | where a passphrase comes from; whom a query names | `KeyCommands` |
| init, configuration | init, config, defaults | `config.toml`, four GnuPG files, directories | init | `Session`; the key type of the configuration in `KeyCommands` |
| doctor, Tails detection | doctor, tails | none | report on storage and directories | `Session`; versions and wording are not |
| tails persist | tails_persist | partition table, LUKS volume and file system of a stick; the mapper; a mount; the cache of kdub for Tails | `create_persistent_storage` and the download before it | `TailsPersist` |
| tails image cache | tails_download, `kdub/src/commands/tails.rs` | `tails-amd64-V.img` and `.img.part` in the cache | download, flash | `IsoCache` |
| flash target | tails_flash, `kdub/src/commands/tails.rs` | the listing of removable disks | list, validate, advise, flash | `FlashTarget`; the stick also in `TailsPersist` |
| updater | `kdub/src/updater.rs` | `update-check.json`, the installed binary | version check after every command, `kdub update` | `Updater` |
| ephemeral | ephemeral | a directory on a RAM disk | create, drop | no: nothing constructs one |
| types, errors, command line | types, error, `kdub/src/cli.rs`, `kdub/src/main.rs` | none | parsing and formatting | what PINs, fingerprints, passphrases and key types accept; wording is not |

How they interact: all commands of the key lifecycle share the two directories
of an identity; `card provision` joins them with the card that `card setup`
prepared, and `key publish` sends what they made. Where the two directories are
`init`, `doctor` and the key commands each find out for themselves, from
variables and from what `tails persist` put on the stick. `tails download` and
`tails flash` meet in the cache directory, `tails flash` and `tails persist` on
the stick, and every command ends with the version check, which shares its cache
file with `kdub update`.

What is hard, component by component, and what makes it correct:

* **Key files.** The secret key exists in two files, each overwritten in
  place. Correct means that the secrets of everything a backup has reported can
  be read from one of them at every moment, that a key file turned into a card
  stub has its secrets in the backup, and that the card holds the newest subkeys
  when that happens.
* **Key packets.** Every renewal appends a signature whose span is computed from
  the clock with wrapping numbers and whose flags are copied from an earlier
  one. Correct means that whoever reads the key sees the expiration that was
  asked for last, that no subkey loses its usage, and that no signature, least
  of all a revocation, ever disappears.
* **Finding a key.** Four ways of naming an identity, four sources for a
  passphrase, four for a key type. Correct means that a command changes the one
  identity that was meant, that the passphrase that made a key opens it by
  whatever way it comes, and that a card can take the key that was made for it.
* **Publishing.** Four places in a row, each of which can fail. Correct means
  that success is success everywhere and that repeating it gets a new key out.
* **Card.** A PIN has three tries and a generated PIN is shown once, at
  the end. Correct means that one run cannot block a card, that the PINs shown
  are those on the card, that no key goes to a card with the factory PIN, and
  that a touch policy reported as set is set for every operation.
* **Sessions.** A home directory that is gone with the session, storage that may
  be locked, variables that lead elsewhere. Correct means that an identity made
  after `doctor` was content is there the next time, and that `init` repairs what
  a torn `init` left.
* **Tails persist.** A dozen external commands, each of which can fail, with
  cleaning up that has to happen in the reverse order; all runs use one mapper
  name; and nothing keeps `tails flash` off a stick that a run is at work on.
  Correct means that a run only touches its own stick, and that a stick
  reported as created is complete and locked unless it was flashed meanwhile.
* **Image cache.** What is verified is an open file, what is renamed and flashed
  is a name. Correct means that only genuine images are in the cache and on a
  stick that was reported as flashed.
* **Flash target.** The decision whether a disk may be overwritten rests on a
  listing of a tree of devices, and the way out of a refusal on a list of
  commands whose order matters. Correct means that no disk with anything mounted
  on it passes, and that an owner who does as told gets there in the end.
* **Updater.** A cache that anything may have torn, a clock that may be set
  back, a release that may change between prompt and download. Correct means
  that the owner hears of a new release sooner or later.

## Modules

### KeyLifecycle

One identity, `Procs` processes. `key` and `meta` are the two files of the
identity store, `dir` and `backup` the backup directory and its five files,
`card` the generation in each slot. A key is the set of its subkey
*generations* (rotation adds one and keeps the old), whether it has its secrets
(a stub or public key has not), and how often it was renewed. A file is absent,
torn, or holds a key. `proc[p]` is what a command knows: the key it loaded or
made, the stamps it loaded, and its place.

A command is one `Start...` action with the checks and loads it makes before its
first write (`prepare_provision`, the stub checks of `run_renew` and
`run_rotate`, the missing one of `run_backup`), then one action per directory,
truncation, fill, import or load, in the order of the code: `run_backup` writes
`certify`, `subkeys`, `public`, `ownertrust`, `revocation`, then the command
loads and saves the metadata; `finalize_provision` saves the stub of the key
that was loaded before the prompts. `Abort` ends a command at any step: a kill,
a refused prompt, a failed write, a card error. `secured` is a history variable:
the generations a finished `key backup` has reported.

Two specifications share the actions. `Spec` lets any command start at any time
in any number of processes. `CarefulSpec` is the owner who follows the
documentation: one command at a time (only backups may overlap), a backup while
the key has its secrets, a renewal or rotation once there is a backup, a
provision when the backup is up to date; commands still die at any step.
`SmoothSpec` is `Spec` without `Abort`.

### KeyCustody

The abstract promise: two stores and what was reported as secured. A store may
change only while the other one holds everything secured, and nothing may be
reported that neither holds. `KeyLifecycle` maps `local` to the secrets usable
from the key file and `vault` to those usable from `certify-key.asc`;
`CustodyKept` is the refinement.

### KeyPackets and KeyExpiry

`KeyPackets` has what the code does to the signature packets of a key, as
operators: a subkey is its birth, its signatures in order, and where its secret
is. `SpanFor` is the arithmetic of `create_renewed_binding_signature` (seconds
since birth plus the duration, modulo `Wide`); `CanRenew` the refusal of a span
that does not fit; `Renewed` copies the flags from the last binding signature;
`RotateSubkeys` takes an expiration and ignores it, as the code does. `StubKey`,
`IsStub` and `CardSerial` are stub.rs. `ExpiresAt` is external: what software
that reads the key makes of several signatures, by RFC 9580.

`KeyExpiry` puts them in sequence over one key, a backup and some cards, one step
per command, with a clock that anybody may set. `asked` remembers for each
subkey what the owner asked for last. The owner moves the key to a card and back
with an up-to-date backup only.

### KeyCommands

What the owner types. A query is the set of pairs (way, identity) it matches;
`FindIdentity` takes the first of the four ways that matches anybody and then
only if it is one. A text is a word with or without blanks around it;
`ResolveSecret` picks the first source that is given, and `ParsePassphrase` takes
the blanks off. `ResolveKeyType` is the precedence of option, firmware, variable
and configuration. Over them a store of several identities with metadata that
may be torn, removed and made anew by a restore. Each command is a step: which
file is written when is KeyLifecycle's. The reference definitions are written
differently from the code's: `Meant` (whom a query fits better than anybody
else), and `Best` (the card's own requirement).

### Publication

A copy of the key at a place is known by the number of changes it has seen.
`Begin` exports the armored key; then the places come in the order of
`run_publish`, GitHub only as a step that passes or fails. The directory loads
the key once more, so that it may get a newer one than the others. Files are
truncated and then filled; an upload may arrive and its answer be lost; the first
failure ends the command. The key changes at any moment.

### CardSetup

`card setup` as the calls `run_card_setup` makes: KDF, admin PIN, user PIN,
name, URL, and the banner that shows the new PINs. `card provision` and
`card touch` are jobs with a call for each slot, which present the admin PIN
every time and end with the first error. The card (external) compares PINs,
counts tries and refuses to change a `fixed` touch policy. `known` is what the
owner has supplied or been shown. A KDF error is swallowed, every other error ends the
run; without a current user PIN the user PIN is left alone and not shown. Pins
are abstract: factory, chosen by the owner, generated, or `Foreign`, set by
other software and not of the length that kdub accepts.

### Session

The stick keeps the persistent storage, the home directory is in memory and
gone with the session. `Boot` starts a session with the storage locked or
unlocked and any of the four variables set; there is one session on another
Linux that never ends. `init` makes directories and writes up to five files one
by one, following a link into the dotfiles of the stick; `key create` writes the
metadata and then the key; `doctor` reports. `Persist` is a whole
`tails persist`, whose steps are TailsPersist's.

### TailsPersist

Every external command of `create_persistent_storage` is an action that takes
effect as a whole or fails without one. The two tables `After` and `OnFailure`
are its control flow: which step follows a success, and which a failure (`?`
up to `luks_open`, then always `luks_close`; a failed `populate_persistence`
still unmounts, a failed `setup_persistence_layout` does not). `Drop` is the
temporary directory going out of scope, which removes what it can reach, also
through a mount. The mapper name is shared by all runs. On a computer that is
not x86_64 the run first gets a kdub for Tails: the archive is created and
filled, its signature verified, the binary extracted and unpacked, over what an
earlier run left of either. The signature says that the archive was released, not
of which version or for which platform it is: it is bound to no name, and any
archive that was ever signed counts as signed here. `TidyUp` is the owner following
the advice after a failure, when no run is going on.

`tails flash` is another process on the same sticks. `ValidateFlashTarget` accepts
a stick, as the code does, when nothing is mounted on it: also one that a run is
partitioning, formatting or has unlocked. `WriteImage` writes to an accepted stick
at any later moment, once or in several pieces, whatever has happened to the stick
since the listing, and leaves nothing of what was done to it; `EndFlash` is an
answer that does not confirm, or the end. What the next command of a run makes of a
stick that was flashed under it, success or failure, is left open. `spoilt` is a
history variable: the sticks that were flashed while a run was at work on them
(`Busy`: from its first command on), until they are flashed again with no run on
them. Of these the properties promise nothing, because the code does not keep the
promise.

### PersistentStick

The abstract promise about sticks, without runs and their steps: what is on a
stick may change until it is reported as ready, its file system only while it is
the one stick that is unlocked; `Finish` reports it when everything is on it and
nothing is mounted, and locks it in the same step. `Erase` is a new flash, at any
moment: when somebody is `busy` with the stick it is `spoilt` and may be reported
and changed all the same, until it is flashed with nobody busy. `Begin` and `Leave`
are all that is seen of runs. `TailsPersist` maps `content` to `disk`, `unlocked` to
the stick behind the mapper name, `ready` to `created` and `busy` to `Busy`, and
`StickKept` is the refinement.

### IsoCache

Names lead to inodes, so that truncation, rename and removal act as on Unix on
files that are open elsewhere. `ParseLatestJson` takes the first USB image of the
first installation; the file it names need not be of the version it names. A
download writes block by block, any of which may be wrong, may end early, checks
the SHA-256 and then the signature of what it has open, renames by name, and
removes other images one by one. A flash finds an image, asks the owner, opens
the image by name and copies it without verifying it again.

### ImageStore

The abstract promise about images, without files, blocks and commands. An image
of a release is absent or genuine; `Evict` may remove any but not all of them; a
flash takes a release that is there and reports that one, whatever has happened
to the cache since. `IsoCache` maps `image` to what the file of a release leads
to (`CacheHas`, with a third value for a file that is not genuine), `taken` to
the releases that flashes have open, and `written` to what is on the stick once
it was reported; `StoreKept` is the refinement. It includes `FlashedIsGenuine`.

### FlashTarget

Disks are roots of a tree of block devices: partitions, LUKS containers, logical
volumes, each with at most one mount. `TargetInit` is every such tree of
`NumNodes` devices. `ListDevices` is `list_removable_devices` and
the check for a disk that is free; `Visited` is the order in which
`collect_mount_info` reaches the devices (children first; on macOS the whole
disk alone, which is all `parse_diskutil_info` reads), `Collect` what it
notes at each of them: a mount point once, then the closing of a container, and
`Collected` what it has noted in the end.
`Choose` is `validate_flash_target` on the listing, `Confirm` the typing of the
path. A refusal leaves the owner with `todo`, the commands that were printed:
`RunCommand` runs them one after the other, and one that the kernel refuses
changes nothing. Umount and cryptsetup (external) refuse what is in use; a mount
hidden by a later one, or with a later one inside, stays. Meanwhile the desktop
opens containers and mounts things (`Unlock`, `Mount`). Mount points are abstract:
per disk one, one inside it, and one elsewhere. Left out: a device mounted twice,
mounts of one disk inside those of another, swap.

### Updater

A command runs with the binary that was there when it started, and `Dispatch` is
its end: a check follows whatever command succeeded, but for `update`, `--quiet`
and output that is no terminal. Then `check_and_notify` (freshness, second read,
fetch, write, comparison), beside `run_update` (latest release, prompt, download
of what is the latest by then, replacement, write of the cache). `age` is the
clock minus `checked_at` and may be negative after the clock was set back.

## Runs

Deadlock is checked where commands can always start again (`CardSetup`,
`Publication`, `Session`). The other runs switch the check off: there programs
end, and counters have bounds.

| run | specification and bounds | what it shows |
|---|---|---|
| `KeyCareful` | `CarefulSpec`, 2 processes (symmetric: the properties are safety), 2 generations, 1 renewal; 1.4 million states | The invariant of the proofs; `SecuredNeverLost`, `StubIsBackedUp`, `BackedUpMeansBackup`, `NewestOnCard`, and the refinement `CustodyKept` |
| `KeyExpiry` | `Spec`, 3 changes, 2 cards, clock 0 to 2, spells 0 and 1, longest span 2, numbers modulo 16; 2.8 million states | `ExpiryAsAsked`, `UsageKept`, `SignaturesStay` |
| `KeyCommands` | `Spec`, 2 identities, 2 words, 1 rotation of each key, every query, source and option | `ChangesTheOneMeant`, `CardTakesNewKey`; and, in `TypeOK`, that metadata tells the type of the primary key |
| `Publication` | `Spec` with fairness, a key that is made and changed twice, an address that is a path or not | `PublishedEverywhere`, `EventuallyPublished` |
| `CardSetup` | `Spec`, one chosen, one foreign and two generated PINs, two touch policies | `OneRunNeverBlocks`, `ShownPinsWork`, `KdfBeforePins`, `ImportNeedsOwnAdminPin`, `TouchSetForAll` |
| `Session` | `Spec`, 1 identity, all 16 settings of the variables; 15 million states | `KeysStay`, `InitRepairs`, `DoctorSeesInit` |
| `TailsPersist` | `Spec` of `MCTailsPersist`, 2 processes, 2 sticks (both symmetric: the properties are safety), computers of three kinds, one stick accepted by `tails flash` and written to any number of times; 1.9 million states | `CreatedStaysComplete`, `OwnVolume`, `UnmountedAtClose`, and the refinement `StickKept` |
| `IsoCache` | `Spec`, 1 download and 1 flash, 2 releases, 2 blocks, 3 inodes | `CachedIsGenuine`, and the refinement `StoreKept` |
| `FlashTarget` | `TargetSpec` with fairness on Linux, 2 disks, 4 devices, 3 touches by the desktop | `AcceptedUnmounted`, `AdviceSuffices`, `EventuallyFlashed` |
| `Updater` | `UpdateSpec` with fairness, 1 command, 1 update, 3 releases, clock set back once | `EventuallyTold` |

Why the bounds are enough. Two processes make every pair of steps interleave;
two generations give a key with an old and a new subkey in each slot and one
renewal tells two versions of the same key apart. Three changes are a rotation
that revokes and a renewal before and after it; three moments with spells of
nothing and of one give spans of zero, of the greatest length and one too long,
and with 16 as modulus a difference that wraps when the clock is set back is far
from any span that fits, as it is in the code. Two identities are what a query can
confuse. Two changes of a published key make a copy that is one behind and one
that is two behind. Two generated PINs are what one run uses; two policies are
one that can be changed and one that cannot. One identity is what a session
keeps or loses: two share nothing. Two sticks are what it takes to confuse them.
One stick accepted by `tails flash` is written to as often and as late as one likes,
so that it is spoilt, made a clean one again and hit after it was reported. What is
left on two sticks that are flashed at any moment is almost any pair of sets, too
many states for a run: so the constraint `FlashesFewSticks` says that from the
first `tails flash` on either one stick is in use or each of them has a run. Beyond
it the theorems speak: they are for any number of sticks, runs and flashes. For
images, three contents of a block (unwritten, genuine, wrong) on two blocks give a
short, a mixed and a right image; three inodes are an image, the `.part` beside
it and one that only an open file keeps; where none is free a download waits.
Four devices are a disk with a partition, a container and a volume in it, or two
partitions of which one is a container, and every split of four over two disks;
three touches open a container, mount something in it and mount something over
that; three releases are installed, compared and downloaded.

Two runs end in a violation, each of a sentence the repository says about
itself, and neither needs a failure (`SmoothSpec`):

| run | the sentence | what happens |
|---|---|---|
| `VKeySecured` | secrets exist "only on the card and in your backup" (README:808) | a key is restored from a backup that was copied in (a created one would do as well), provisioned and backed up: the backup of the stub overwrites `certify-key.asc` |
| `VCardPinShown` | the PINs are displayed "exactly once" (card_setup.rs:49) | the admin PIN is changed to a generated one, the user PIN is refused, the result with the PINs is never built |

## What else the models show of the code

The preconditions of the properties above mark where the code promises less than
one might think. Each of the following is in a model or was met while writing one.

* A provision checks only that the backup *directory* exists
  (card_provision.rs:82), while README:808 calls the backup one of two copies:
  after create, backup, rotate, provision the new subkeys are on the card alone.
  This is why `CarefulSpec` asks for a backup that is up to date.
* When `setup_persistence_layout` fails the volume stays mounted and cannot be
  locked (tails_persist.rs:656 against :601), which is the exception in
  `UnmountedAtClose`.
* `tails flash` looks at mount points only (tails_flash.rs:367), so it accepts a
  stick that a `tails persist` is partitioning or formatting or has unlocked. A run
  that was past `sgdisk` and `mkpart` by then may go on without an error and report
  "Persistent storage created" on a stick whose partition table is the image's: TLC
  shows it within one run and one flash when `CreatedStaysComplete` is stated for
  all of `created`. This is the exception `spoilt` makes.
* After a run that died past `mkpart` a second one finds no room for a
  partition; only flashing helps.
* Two downloads of one release share the `.img.part` file (tails_download.rs:351
  against the comment at :395): one renames what the other goes on writing. The
  run of `IsoCache` has one download at a time, its theorems say which of them
  need that. The same holds for the archive that `tails persist` gets on aarch64.
* Two downloads of different releases that end together each remove the image
  the other has just renamed (tails_download.rs:452), and the cache is empty: the
  refinement of `ImageStore` holds for one download at a time only. The cleanup
  may also remove an image newer than its own.
* On macOS only the whole disk is asked where it is mounted (tails_flash.rs:332):
  a stick with a mounted partition passes.
* Swap space is listed as the mount point `[SWAP]`, which no umount takes down, so
  the stick is refused for ever (tails_flash.rs:108).
* A stick that the desktop, or a `tails persist`, mounts after the listing is not
  refused (`kdub/src/commands/tails.rs:147`).
* `key rotate --expiration` is parsed and then not used (rotate.rs:30): new
  subkeys never expire, and `ExpiryAsAsked` leaves them out.
* `--expiration 0d` gives a span of zero, which means no expiration at all. Sums
  of seconds wrap at 2^64 for absurd durations; the theorem about expirations
  assumes that they do not.
* A renewal with the clock set back makes a signature that readers pass over in
  favour of an earlier one, which is the precondition `Newest`.
* A rotation makes Ed25519 and X25519 subkeys while the comment on key creation
  says the import knows only the older form; `CardTakesNewKey` speaks of new
  keys only.
* `card touch fixed` that fails half way cannot be completed: the next run stops
  at the operation that is fixed already. Only `card reset` helps.
* A restore keeps `provisioned` stamps of metadata that is still there, although
  the key is no stub any more, and stops on metadata that is torn.
* `key publish` ends where GitHub has the key already, before the directory and
  the file; `EventuallyPublished` rests on the owner asking for each place alone.
* `init` without `--force` keeps a `config.toml` that a killed `init` has torn.
* A version check that timed out is tried again by every command, where
  README:272 says once in 24 hours.
* Two `kdub update` at once may leave the older version installed: the slower one
  replaces what the faster one has got (`kdub/src/updater.rs:308`). `NeverOlder`
  is proved for one at a time, and TLC finds the counterexample with two.
* `doctor` takes an existing directory for mounted storage.

## Fairness

`Updater`, `FlashTarget` and `Publication` have liveness. The code schedules
nothing itself: each assumption is about the owner, the operating system or the
network, and without any one of them the promise is indeed broken.

In `FlashTarget` kdub answers and the owner goes on: weak fairness of the
program's steps together (`Flashing`), for the prompts wait for nothing but the
owner, and of the owner's (`Owner`: run the next command, start again). The
desktop may do its worst, but only `MaxTouches` times: a desktop that mounts a
stick anew after every umount keeps the owner away from it for ever.

In `Updater` time goes on (`Tick`), the owner runs a command again and again
(weak fairness of `Begin`), a process that has truncated the cache file is not
suspended forever before it fills it (weak fairness of `FillCache`). Commands may
fail or be killed and requests may time out any number of times, but not every
time: strong fairness of `Dispatch`, of the steps of the check and of a successful
fetch. The clock may be set back at any moment, but only finitely often
(`MaxSetBacks`).

In `Publication` the owner comes back to each place on its own (strong fairness of
`Begin({place})`, strong because another publish may be in the way), a command
that is not cut off goes on (weak fairness of `Publish`), and no step fails for
ever (strong fairness of the upload, the loading and the two halves of a write).
GitHub has no fairness: nothing is promised of it. The key changes at most
`MaxVersion` times; a key that changed faster than it is published would never be
up to date anywhere.

## Proofs

A module of proofs extends its model, or two models (`TailsFlash_proofs` the two
halves of `tails flash`, `SessionUpdater_proofs` what comes before and after the
key commands; the names of `FlashTarget` and `Updater` differ from the other
models' for that), and has for each an inductive invariant, a lemma for every
action, and the theorems. No proof bounds the number of processes, generations,
renewals, PINs, sticks, flashes, block devices, releases, blocks or changes; the bounds of
the models enter as natural numbers only.

| module | theorem | statement |
|---|---|---|
| `KeyLifecycle_proofs` | `TypeCorrect` | `Spec => []TypeOK` |
| | `CarefulInvariant` | `CarefulSpec => [](TypeOK /\ IInv)` |
| | `CarefulOwnerLosesNothing` | `CarefulSpec => []SecuredNeverLost` |
| | `CarefulStubIsBackedUp` | `CarefulSpec => []StubIsBackedUp` |
| | `CarefulOwnerKeepsCustody` | `CarefulSpec => CustodyKept` |
| | `BackupIsThere` | `Spec => []BackedUpMeansBackup` |
| | `NewestGoesOnCard` | `CarefulSpec => NewestOnCard` |
| `KeyExpiry_proofs` | `TypeCorrect`, `FlagsAreKept`, `SignaturesAreKept` | `TypeOK`, `UsageKept`, `SignaturesStay` |
| | `SubkeysExpireAsAsked` | `ExpiryAsAsked`, when no time plus spell reaches `Wide` |
| `KeyCommands_proofs` | `TypeCorrect`, `TheOneMeantIsChanged`, `NewKeySuitsCard` | every property of the run, for any finite set of identities |
| `SessionUpdater_proofs` | `TypeCorrect`, `CreatedKeysStay`, `InitLeavesWholeFiles`, `DoctorAgrees` | every property of the run of `Session` |
| | `UpdateTypes` | `UpdateSpec => []UpdateTypeOK` |
| | `OnlyReleased` | `UpdateSpec => []NoticesAreTrue`: what the owner is told of and what is installed has come out |
| | `NeverOlder` | with one `kdub update` at a time no step installs an older version |
| `Publication_proofs` | `TypeCorrect`, `SuccessIsEverywhere` | `TypeOK`, `PublishedEverywhere` |
| `CardSetup_proofs` | `TypeCorrect`, `TouchIsSetForAll`, `NeverBlocksInOneRun`, `PinsThatAreShownWork`, `KdfComesBeforePins`, `ImportsNeedOwnAdminPin` | every property of the run |
| `TailsPersist_proofs` | `TypeCorrect`, `CreatedIsComplete`, `RunsHaveTheirVolume`, `ClosesUnmounted`, `CreatedIsLocked` | `TypeOK`, `CreatedStaysComplete`, `OwnVolume`, `UnmountedAtClose`, `LockedWhenCreated` |
| | `SticksArePersistent` | `Spec => StickKept` |
| `TailsFlash_proofs` | `TypeCorrect` | `Spec => []TypeOK` |
| | `CacheIsGenuine` | `Spec /\ []OnePerRelease => []CachedIsGenuine`: no two downloads of one release at once |
| | `FlashIsGenuine` | the same for `FlashedIsGenuine`, with one flash at a time (`OneFlash`) |
| | `CacheIsStore` | `Spec => StoreKept`, with one download and one flash at a time |
| | `TargetTypes` | `TargetSpec => []TargetTypeOK`, on Linux and on macOS |
| | `AcceptedIsUnmounted`, `AdviceIsEnough` | `AcceptedUnmounted`, `AdviceSuffices`, on Linux |

Apart from those named in the table the assumptions are the ASSUMEs of the
models: bounds are natural numbers, names that stand for different things differ.

**KeyLifecycle.** `SecuredNeverLost` is not inductive: a save passes through a
torn file, and what comes after the tear is what a process holds in memory.
`IInv` adds three things.
`Shape` and `Overlap` say which steps belong to which command and that nothing
but a backup runs beside a backup. `Stores` says what the two files hold when
they can be read, and that the key file holds everything secured whenever
`certify-key.asc` cannot be read. `InMemory` says what a running command may rely
on: a backup holds the key that is in the key file, a restore the one in
`certify-key.asc` until it has written it, a provision a key whose generations
the backup has. The proof of the step goes command by command; `Quiet` disposes
of the steps that touch neither of the two files, `BackupFileStep` and
`KeyFileStep` are the two that do, `FinishBackup` is where `secured` grows.
Custody follows from the same invariant with one abstract step per concrete one.

`BackupIsThere` is about any commands in any order, so nothing about overlap helps
it. `BInv` strengthens it to what each process knows: whoever holds the
`backed_up` stamp in memory, or is a backup past `certify-key.asc`, or a restore,
has a backup in the world, because nothing removes or renames the file.

`NewestGoesOnCard` needs to know how far an import has got. `CInv` adds to `IInv`
that every key has its first generation (so the import is not empty), and
`Imported`: slots behind the counter have the oldest generation still to come,
the others the newest of those that are through. `ImportAdvances` is the lemma
that one import keeps this; when nothing is left every slot has the newest.

**KeyExpiry.** The invariant says of every subkey in the key file and in the
backup that it begins with the binding signature of its birth and that all its
binding signatures have the usage (`Sound`), of a key that its secrets are all in
one place, and of a subkey in the key file that its last binding signature has the
span that was asked for (`Told`). `ExpiresAt` reads the
*newest*, so the proof of `SubkeysExpireAsAsked` shows that the newest is the last
where the clock was not behind, and that the wrapped sum of `SpanFor` is the
difference it stands for: a clock that is behind the birth of the subkey wraps
once on the way out and once on the way back.

**KeyCommands.** `KCInv` says that a key is locked with the word it was created
with, without blanks, and that its metadata, when it can be read, tells its
algorithm. `FindsTheBest` is the heart: what `find_identity` returns, one way
after the other, is exactly whom the query fits better than anybody else, for any
number of identities; `SecretIsWord` says the same word comes out of all four
sources, `BestIsBest` that the type chosen for a firmware is the best it takes.

**Session.** `SInv` says of a running command what it has done so far. A file that
is not to do any more for `init` is whole (`InitSoFar`). A `key create` still has
the store it began with, because neither variables nor storage change within a
session, and its two files are as far as its step (`CreateSoFar`). A stick that
kdub made has the feature that puts the data directory on it, so that whatever
was created while `doctor` was content has been put there.

**Publication.** `PubInv` has two halves: nothing that a place has, or the command
holds, is newer than the key (`Older`), and every place that the step is past and
that was wanted has the armored version (`Reached`). `NextOf` works out what
follows each place, so that nothing is passed over.

**CardSetup.** `SetupSoFar` bounds the tries a setup has cost by the step it is
at: one after the KDF step, none after its own change of the admin PIN, from where
on the PINs on the card are its new ones. `JobSoFar` says that a job that is still
running has been refused nothing, so that a refusal is its first and its last, and
that the operations it is done with have the policy. `TypeOK` says more than types
of the PINs: what kdub presents or sets has gone through `AdminPin` or `UserPin`
(`GoodPins`), whatever other software has put on the card.

**TailsPersist.** The step of a run bounds what is on its stick from below (all
that was done before it, unless it has failed), the mapper leads to the stick of
the one run between `luks_open` and `luks_close`, whoever is past `mkpart` is
alone on its stick, and what the cache holds is
bounded by how far the download has got: a binary that could be used comes from
an archive whose signature was good. What is said of a stick is said of those that
are not `spoilt`, and a write of an image keeps it: either a run is busy with the
stick, which is spoilt from then on, or whoever has it in mind has done nothing
there yet (`BusyOrNothingDone`). Who has the mapper and the mount does not depend
on flashes. The refinement follows from the same
invariant with one abstract step, or none, per concrete one (`StepIsStick`): the
commands up to `luks_open` change a stick that is not unlocked and leave the file
system alone, those after it write through the mapper to the run's own stick, and
`luks_close` is `Finish` where nothing has failed and `Lock` where something has;
`BusyOn` and `BusyOff` say how one process changes who is busy.

**IsoCache.** Every file has one name (`Names`): a `.part` file is no other
release's, and no `.img` file. With one download per release no other open file
leads to the inode that is `.part`, so that what `CheckSha` and `CheckSignature`
have seen is what `Rename` takes, and nothing writes to an inode that is called
`.img`, whatever downloads of other releases do. The hypothesis is a temporal one
because the code allows what it rules out; in the step it is the same for the
state before. `TypeOK` needs none of this and has an invariant of its own, about
inodes only. A flash keeps what it has opened genuine for the same reason, and
the blocks behind its counter are those of the file (`StickInv`). For the
refinement one more fact is carried along (`FetchedInv`): a download has been
told of a release that is out, and whoever cleans up has its own image in the
cache, so that `Evict` never takes the last one.

**FlashTarget.** The listing of a disk is recursive, and what a recursion computes
for every tree needs an induction. The library's induction theorems take an
operator, so `Induction` states it for a set of numbers instead (from
`WFMin`: a set that is not everything lacks a least number), and
devices are numbered so that what is inside a device has a greater number.
`SumsExist`, `InsideFirstIs` and `CollectedIs` show that the recursive functions
satisfy their own equations; then `InsideFirstOrder` says that every device
inside a disk is visited once and after all that is inside it, `CollectedSoFar`
that the mount points are those of the devices visited, each once, and the
commands a `Plan`: every mount that is left is still to be undone, every open
container still to be closed, and the umounts of what is inside it come first
(`ListingIs`). The invariant is `TargetInv` (types, the tree, what is mounted) and
`Told`: as long as the desktop has been quiet, a listing without mount points
belongs to a disk with nothing mounted, and what is still in `todo` is a plan for
all disks it is for. `PlanGoesOn` takes the first command off a plan;
`PlainUmount` and `PlainClose` say that it succeeds where no mount lies over or in
another one and no logical volume is open. Two hypotheses are the code's own
limits: on macOS the mounts of partitions are not read, so both theorems
that rest on the listing say `Platform = "linux"`; and nested mounts do make a
command fail, which is what `EventuallyFlashed` is about.

**Updater.** The cache file is torn and filled by anybody, so the invariant is
about what a process may have read: every version in the cache, in hand or
installed is one that has come out (`Known`). For `NeverOlder` it adds `Newer`:
the binary that runs an update is the one that is installed, and from the prompt
to the replacement the version in hand is a later one. A second update breaks
exactly this.

Model-checked only: liveness (`EventuallyTold`, `EventuallyFlashed`,
`EventuallyPublished`), which is out of the prover's reach. Every invariant and
every action property of a run has a theorem.

## Not modelled, and why

* The key lifecycle's three views (files in KeyLifecycle, packets in KeyExpiry,
  queries in KeyCommands) are not composed into one state space; what they share
  is in the sentences above and nowhere else. `key list` only reads.
* The text that `lsblk`, `diskutil`, `ykman` and the servers print and its
  parsing: the models start from what it says.
* What `doctor` says of programs and their versions, and all formatting: reading
  and wording.
* `card info` only reads. `enable_kdf` writes zero as the
  algorithm; what a card makes of that is not kdub's.
* `ephemeral.rs` and `fix_gpt_backup_header`: nothing calls them.
* A power failure that undoes a finished write: kdub never calls fsync on these
  files and promises nothing about it.
* The metadata of an identity holds more stamps than the two that are modelled,
  and the configuration more settings than the key type.
* Loss of an update between two different commands at once: `Spec` of
  KeyLifecycle has it, and no sentence of the repository promises anything.

## Plan

1. Compose `CardSetup` with the card part of `KeyLifecycle`: a card is set up,
   provisioned, reset and provisioned again, PINs and slots together.

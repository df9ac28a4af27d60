# Verification of external-vault

This directory holds TLA+ models of the programs of this repository, the TLC
configurations that check them on small instances, and proofs, checked by TLAPS,
of what holds for every instance. It covers the parts where several processes,
failures and power losses meet state that must survive: the mailbox store of
SecurePigeon, its one-time access record, its delivery, retrieval and deployment
programs, and of AgentDock the multi-agent switch and the configuration wizard:
its model discovery, its profiles and its saving.

Paths below are relative to the repository; `P` is
`projects/SecurePigeon/src/pigeon_store.py`, `T` is `temporary_access.py`, `R` is
`retrieve.py` and `D` is `initialize_usb.py` beside it, and `AD` is `projects/AgentDock/source/AgentDock.c`.

## 1. Inventory

### SecurePigeon

A USB drive that takes files and gives them only to its author. The author runs the
deployment program once; anyone may run the delivery program from the drive; the
author, or somebody with a temporary code, runs the retrieval program. The
programs share nothing but files: every interaction is a file on the drive or in
the author's folder, and a byte lock on two of them.

| part | state | operations | what is hard | what makes it correct |
| --- | --- | --- | --- | --- |
| mailbox store (`P`) | `.pigeon.store`: header, then records end to end, the rest zero; a lock on its last byte | `initialize_store`, `inspect_store`, `_record_end`, `append_file` | deliveries that overlap; a failure or a power loss between body and header; a source that changes while it is read; the last cell | what was reported as delivered stays readable; records stay chained; the lock is given back; the store is an append-only log |
| temporary access record (`T`) | `.pigeon.temp.access`: salts, masked secret, wrapped key, and two counters (failures, last slice spent); a lock on its first byte | `provision`, `verify_and_consume`, `load_private_key` | programs that check codes together; a power loss between the counters and the key; codes that collide; a clock that is set | access once per slice and only after the slice is spent on the medium; no refusal is forgotten |
| retrieval (`R`, `P:417-527`) | the folder of exported files, temporary files in it | `main`, `extract_all`, `_next_output_name` | three scans of a store that changes; damaged headers; the drive is pulled; a rename that replaces | the report accounts for every record; no exported file is overwritten; no record goes missing in silence |
| delivery program (`inbox.py`) | a list of chosen files, the hint, the progress window and its status file | the gate of activation and trial, the loop over the files, `DeliveryProgress` | a window that reads and writes the same status file; a failure in the middle of the list; cancelling | done means every file is stored once; a cancel stops; every delivery ends |
| activation and trial (`activation.py`) | `.pigeon.license` with two pinned fingerprints and an optional code, `.pigeon.trial` | `deploy_license`, `verify_public_keys`, `trial_started`, `start_trial`, `days_remaining`, `is_activated`, `verify_and_save` | rewriting in place; a program that ends between truncation and writing | an activated drive stays activated, one that is not can still be activated |
| deployment (`D`) | every file on the drive and in the author's folder | one ordered sequence: clear, keys, access record, license, programs, store, hide, lock | a failure or an end between any two of its files, over an older deployment; two deployments; a delivery that is running | nothing is delivered that no saved key can read; a drive never mixes two deployments |
| activation tool (`activation_tool.py`) | a CSV file of codes given out | compute a code, append a line | nothing | - |
| keys and cryptography (in `P` and `T`) | key files | RSA, OAEP, AES-GCM, scrypt masks | nothing that interleaves | a record decrypts with the author's key |

The delivery program calls `append_file` for each file and hands the offset it
returns to the next call. The retrieval program reads the same store without a
lock and, for a temporary code, calls `verify_and_consume` first. The deployment
writes the initial state of all of them.

### AgentDock

A Windows program in one C file that installs and configures command line agents.
A window thread and short-lived worker threads share globals; settings live in
files of the user, in the registry and in the credential manager.

| part | state | operations | what is hard | what makes it correct |
| --- | --- | --- | --- | --- |
| multi-agent switch (`AD:2653-3084`) | a flag in `settings.json`, a block in `CLAUDE.md`, a registry note of two values | `manage_global_agent_teams`, the two transforms, `agent_registry_store`, `agent_commit_files`, `agent_restore_file` | the program ends between any two writes; the second of two files cannot be replaced; the user edits the files; two AgentDocks | the user's value of the flag is not forgotten, or at least backed up; a failure leaves the files as they were |
| profiles of the wizard (`AD:3193-3331`, `4523-4597`) | per agent a list in the registry and in an array of sixteen; a slot of the credential manager per profile | choose, save as, delete | a slot and a list written one after the other; the end of the array; ids that two agents share | a profile is read back with its own key; no key is left without a profile |
| model discovery (`AD:4217-4427`) | the list of models, its protocol, a debounce timer, a button, one worker thread | ask, start, post the answer | an answer after the wizard was closed or pointed elsewhere; a list read while it is written | an answer is used only for what is in the form; the button comes back |
| saving a configuration (`AD:2546-2609`, `3089-3190`, `4672-4742`) | the agent's file, its temporary file, the credentials, their names and the active ones in the registry, the busy flag | save from the wizard, import a file, launch | four stores written one after the other; several programs; one list of active names for both agents | file, key and name go together; every save ends |
| install, update | the busy flag, worker threads, child processes | start, capture, finish | closing while installing; two operations at a time | one operation at a time, and the flag is given back |
| JSON, TOML and text transforms | none | pure functions | long texts | the rest of a file is kept |
| window, layout, painting | none that others read | - | - | - |

### Others

`projects/oci-capacity-watch` is a scheduled query that opens an issue once;
`_extracted`, `output`, `skills` and the packaged folders hold generated or
vendored material and are left aside.

## 2. Plan

Most important behaviour first; each row is a module with its composition, its
abstract specification and what is proved.

| order | module | composes with / implements | runs | theorems | state |
| --- | --- | --- | --- | --- | --- |
| 1 | `PigeonStore` | implements `MailboxLog` | `store_sole`, `store_writers`, `store_race` | types, lock, size, header last, only races lose, log refinement | done |
| 2 | `TemporaryAccess` | implements `OneTimeGate` | `access_two` | types, refusals counted, gate refinement | done |
| 3 | `Inbox` | its append step is the append of `PigeonStore`, reduced to its two outcomes | `inbox_two` | types, order of files, gate, trial, window | done |
| 4 | `Retrieval` | reads the log `MailboxLog` promises and the answer of `OneTimeGate` | `retrieve_two` | types, accounting of the report, files kept, nothing left out | done |
| 5 | `AgentTeams` | - | `teams_one` | types, flag kept, note whole, failures restore | done |
| 6 | `Deployment` | ends in the initial states of 1 and 2; its delivery programs are those of 3, reduced to their keys | `deploy_two` | types, what is delivered some kit reads, one deployment, records follow the store | done |
| 7 | `Profiles` | its keys are what the form of 8 and 9 gets | `profiles_two`, `profiles_refill` | types, slots match the lists | done |
| 8 | `ModelDiscovery` | - | `discovery_two` | types, the answer belongs to the form, no probe after closing, whole lists | done |
| 9 | `ConfigSave` | - | `save_two` | types, file, key and name go together | done |

Every safety property and action property that a passing run checks is now a theorem;
what is left to TLC is liveness (section 6). What would say most next is lemmas that
tie modules together: that an append of `Inbox` is one of `PigeonStore`, and that the
records `Retrieval` scans are those a `MailboxLog` holds.

## 3. Modules and code

| module | models | code |
| --- | --- | --- |
| `MailboxLog` | what the mailbox promises: an append-only log | - (abstract) |
| `PigeonStore` | `inspect_store`, `append_file`, the byte lock, the medium | `P:119-404` |
| `OneTimeGate` | what a temporary code promises: one access per slice of time, spent first | - (abstract) |
| `TemporaryAccess` | `verify_and_consume` on the record of `provision` | `T` |
| `Inbox` | `main` of the delivery program, the gate, the progress window | `inbox.py`, `activation.py:293-411` |
| `Retrieval` | `main` of the retrieval program, `extract_all` | `R`, `P:417-527` |
| `AgentTeams` | the switch of Claude Code's multi-agent mode | `AD:2653-3084` |
| `Deployment` | `main` of the deployment program, file by file, and a delivery program on the drive | `D:449-734` |
| `Profiles` | the wizard's handlers for profiles, their lists and slots | `AD:3235-3331`, `4523-4597` |
| `ModelDiscovery` | the wizard's handlers around discovery, the timer, the thread, its message | `AD:4252-4427`, `4622-4633`, `4896-4951` |
| `ConfigSave` | `import_thread`, `codex_save_thread`, the credential names, what a launch injects | `AD:2546-2609`, `3089-3190`, `4672-4742` |
| `MC*` | constants of the small instances | - |
| `*Proofs` | theorems and proofs | - |

`PROJECT.json` names the lines of every definition.

### PigeonStore

The data area is a function from positions to cells: a cell is zero, a header
with the length it declares, a part of a body, or a part beyond what the header
declares ("extra": the source grew between its `stat` and its reading). The header is
one cell, which stands for the block of fixed size that is written by one call; a torn
header is not consistent, which the scan takes for the end of the records, so it is
the same as none. There are two copies of the area: `file`, what processes see,
and `disk`, what survives a power loss; `PowerLoss` keeps any part of what was not
synced. A process goes through `scan` (`_record_end` step by step), `ready`,
`locking` (`LK_LOCK` gives up after ten tries), `body`, `header`, `sync`,
`unlock`. `BeginAppend` fixes the offset before the lock, as the code does, and
passes the third value of one append as the hint of the next; the first file of
each program scans. A hint beyond the capacity cannot arise and is not a step.
`raced` remembers that a lock was taken with an offset that another commit had
made stale. Only a hint is checked once more against the size of the file: the first
append of a program relies on its scan. The Windows build is modelled (locks of `msvcrt`). A record that
ends at the capacity covers the byte of the lock; reads of the scan while that
byte is locked are not refused in the model. A source that grew into a record
longer than it declares makes the store refuse every later append: the model
has it, `StaysInStore` allows the extra cells, and no property is violated because
nothing that was reported is lost.

### TemporaryAccess

The record is its two mutable fields, `fail` and `last`; salts, masked secret
and wrapped key do not change. A code is the set of the slices it is right for,
so that two slices may share a code and a code may be wrong. The two counters
are adjacent bytes of one header, written by one flush, so a power loss keeps
both or neither. What a corrupted record raises comes before any state changes
and equals a refusal without effect.

### Inbox

A program goes through the gate (`is_activated`, `trial_started`,
`days_remaining`, the dialog, `start_trial` or `verify_and_save`, the keys) and
then delivers its files. The gate reads the trial file afresh at each of its
questions, twice for the days that are left (`CheckDays`, `ReadDays`), and `start_trial` empties the file when it opens it and writes the date
later: these are separate steps, and several programs may be in them. The license
is rewritten in place with the same bytes and the code behind them, one write.
Neither file is synced; losing an unsynced write returns to a state from before it,
which is why power losses are not modelled here. Each run has its own status file
and its own window. The window's reads (`ReadAllText`) refuse writers while they
last; the program's reads and the button's `Set-Content` are not refused. The text
the button writes has a byte order mark and a line end, so neither side recognises
it. An append returns or raises, as `PigeonStore` shows; the exception may also be
that of the progress callback, which the model has as `UpdateRefused`.
`orphaned` remembers a program that was ended or could not write its last
text: its window may stay, and a delivery whose files are all stored may be
reported as failed.

### Retrieval

The store is the sequence of its records, each with its name and a header that
can be damaged at any time; damage to a body is part of `Skip`, as are the full
disk and the pulled drive, since every exception between the header and the
rename counts the record as damaged. The code's three passes are `FindEnd`
(`inspect_store`), `CountRecords` and the loop. Reading a header and choosing
the output name are one step: between them only other programs' files matter,
and they are looked up in the same step. `overlapped` remembers that two retrievals
worked in one folder at a time, and `FilesKept` excepts these. `ReadFails` stands for
what ends the program: errors of the store, of the folder and of the status text.
Only records that `append_file` wrote are in the store, and damage makes a header
invalid; two deliveries that race can also replace one by a valid header of another length,
which is left out here (`store_race` shows the race).

### AgentTeams

`settings.json` is its flag (a value of the user, `"1"`, absent, no file, no valid
JSON); `CLAUDE.md` is whether it is there, has the current block, or has markers that
do not match; the registry note is
two values written one after the other. A switch reads all of it, asks, writes
the note, prepares both files, replaces one, then the other, puts the first back
if the second fails, and clears the note. `disturbed` remembers what the code
cannot see: an edit between its reads and its replacement, or an edit to the very
value the Manager wrote. `backups` are the copies of `settings.json` beside it.

Putting the first file back may fail too (`RestoreFails`, error 27), or be cut off with half the
file written, since it is copied and not renamed. After error 27 a switch on clears
its note all the same, so that the Manager's `"1"`, or half a file, stays in
`settings.json` and the Manager no longer knows the user's value. `stranded` remembers this
until the user sets the flag again; `FlagKept` then says only that a backup has
the value, or that there was none, and `FailureRestores` does not speak of this error.

### Deployment

A key is the number of the deployment that made it; the private key, the code's QR
picture and the master file of the activation are the kit's, everything else the
drive's. Each file the program deletes or writes is a step, after which it may
fail or end, so that a drive is left with any prefix of the sequence over any older
deployment. The checks stand where the code has them: the kit is looked at before
the dialogs (`Choose`), the drive is listed before the confirmation (`List`), the
license and the store take the public keys as the drive has them by then. What a
delivery program matters for here is that it has loaded its keys, that it
compares them with the header before each append, and that Windows keeps the
files of a running program from being deleted (`InUse`), which stops a deployment that
has come to clearing its folder. The last phase, hiding and locking, is one step and
always raises (see 5). `home` is where a private key was written, `shared` the kits
that two programs found empty, `contended` the drives two programs deployed at a
time; `AuthorKept` and `OneDeployment` except these.

### Profiles

A profile is its id and its key; its other fields go with it. `list` is the
wizard's copy, `stored` the registry. The handlers are steps, since one thread runs
them, but each of their writes may fail and the program may end between two of
them (`Restart`). A slot is named by the id alone, so the agents share slots; a
deleted or cleared key is a single space in the slot, which is read back as a key.
The array's end is not checked: the model writes one entry behind it, and `overrun`
remembers it. `given` is the key a profile was saved with, `users` the agents that
have used an id, `spoiled` the ids with a write that failed.

### ModelDiscovery

The window's thread takes one message at a time, so each of its handlers is a step;
the discovery thread takes one per write to a global, and its message is taken
some time after it was posted. `fields` is address and key in one, for only their
agreement with the question asked matters. The timer is modelled as it is: its
handler calls `start_model_discovery` as the input handlers do, which arms the timer
again, so a discovery begins only with the button or when no timer can be made.
`answered` is the question whose answer the globals hold, `total` the models it
named, `turned` that the form was changed under a busy thread, `rushed` that a test
began before the message of the one before.

### ConfigSave

A save is an address, the name of a credential and a key; `Offered` is what the forms and
the files to import can name. The provider chooses the name and not the address:
Claude's wizard saves what was left in the form, so an official key may be saved with the
address of a gateway. `Check` reads the form and the file and makes the new text of
it, as the code does before it changes anything; what Claude's wizard saves is merged
into the text read, so a save without an address keeps the one that is there.
The steps after it are the writes, in the order of each agent's thread. Several
programs share everything, the name of the temporary file included. One
list of active names serves both agents, and `Injected` is what a launch takes from
it. Each agent has one file; tokens that a user wrote into it by hand are left out.

`done` is what each agent's last complete save left, and `launch` the key that was chosen
last. An import, a save of Codex without a key, and one that cannot write the list
of active names choose none: they leave `launch`, as they leave the list. `crossed`
marks saves that overlap another program's. `broken` has the files (by agent) and the
credentials (by name) that were written by a save which then failed or was ended, or
by one that was crossed, until a complete save writes them again. `SavedTogether`
speaks of every file and credential that is not in it and that no save under way
has written (`Sound`).

## 4. Runs

Numbers of distinct states; every passing run takes less than two minutes with two
workers.

| run | instance | states | properties | shows |
| --- | --- | --- | --- | --- |
| `store_sole` | one writer, 6 cells, bodies of 1 or 2, 3 appends | 83,449 | `DeliveredKept`, `ImplementsLog` | one process at a time: deliveries survive everything, and the store is a log |
| `store_writers` | two writers, 4 cells, 2 appends | 288,727 | `TypeOK`, `LockDiscipline`, `StaysInStore`, `LossNeedsRace`, `HeaderLast`, `AppendsEnd` | what holds with overlapping deliveries, and that a stale offset is the only cause of a loss |
| `store_race` | two writers, 4 cells, 3 appends | violated | `DeliveredKept` | an overlapping delivery overwrites one that was reported |
| `access_two` | two programs, slices 0 to 4, five codes (one wrong, one for two slices), threshold 2, 3 attempts | 263,226 | `TypeOK`, `RefusalsCounted`, `ImplementsGate`, `AttemptsEnd` | access once per slice, spent first; no refusal forgotten |
| `inbox_two` | two programs, trial of a day, 2 days, 2 files, 2 runs | 193,362 | `TypeOK`, `StoredInOrder`, `GateHolds`, `TrialKept`, `WindowGone`, `DeliveriesEnd` | order, gate and trial hold, and every delivery ends whatever its window does |
| `retrieve_two` | two retrievals, two names, 2 records, 2 starts | 2,304,036 | `TypeOK`, `Accounted`, `FilesKept`, `Complete` | the report adds up, exported files stay, an undamaged report is complete |
| `teams_one` | one AgentDock, two user values, 3 edits | 1,927,237 | `TypeOK`, `FlagKept`, `RegistryWhole`, `FailureRestores` | the user's value is never forgotten, but after a failed undo only a backup has it |
| `deploy_two` | two deployment programs, one delivery program, one drive, two kits, 2 keys | 1,801,798 | `TypeOK`, `AuthorKept`, `OneDeployment`, `RecordsMatch` | whatever is delivered some kit can read, and no drive mixes two deployments |
| `discovery_two` | two threads, two agents, two gateways, 2 models | 235,984 | `TypeOK`, `AnswerForForm`, `NoProbeAfterClose`, `OffersWhole`, `ButtonComesBack` | what a save takes for the gateway's answer belongs to the form; the button comes back |
| `profiles_two` | two agents, two keys, an array of 1, 2 ids | 158,646 | `ProfilesTypeOK`, `SlotsMatchLists` | slots and lists agree, up to the end of the array |
| `profiles_refill` | the same | violated | `ProfileRefills` | a profile of one agent overwrites the key of the other's |
| `save_two` | two programs, a gateway, two keys, 2 saves | 269,968 | `TypeOK`, `SavedTogether`, `SaveEnds` | file, key and name go together where no unfinished or overlapping save wrote, and a launch takes the key chosen last; every save ends |

Why the bounds are enough. Three appends to six cells give every relation of two
records and a third: fitting, ending at the last cell, refused. Two writers and two
appends give a stale offset of both kinds (a scan, a hint). In `access_two` the
window (three slices back, one ahead) moves over five slices, so that a code may be
ahead, behind, spent, shared or wrong, and two refusals reach the threshold with an
attempt left. In `inbox_two` two programs pass the gate in every order, with the trial running
or expired, and two files tell "after the first" from "after the last". In
`retrieve_two` two records have equal or different names, and two starts cover a
retrieval after one that was ended, and two at a time. One AgentDock is enough in
`teams_one` because its properties speak of undisturbed states only, and a second
program between the steps of a switch disturbs; with two, the note can end marked
without an original, and the button refuses from then on. In `deploy_two` two keys are a
deployment over an older one, or two at a time into one kit or two; a second drive
would only add deployments that share a kit, which the code refuses. In `discovery_two`
one thread can be listing while the message of another is on its way, two gateways and
two agents tell the question asked from the form, and two models tell part of a list
from all of it. In `profiles_two` an array of one is overrun by the second profile,
and two ids are those two; an array of two with two ids passes as well (139,261
states). In `save_two` two saves are one after another of the same agent or of both,
in one program or two, and the second may find the first one ended anywhere. One
program with three saves (336,934 states) and two programs with two gateways
(675,512) pass as well.

`retrieve_two`, `deploy_two` and `save_two` switch the deadlock check off: when all
starts, keys or saves are used nothing may be left to do. The other runs check for
deadlock.

Mutants. `PROJECT.json` lists for each property a faulty form of an action (the
definitions under "Faults" in each module: a lock that is not given back, a
counter written after the answer, a loop that skips, a wait without a limit)
that breaks it.

### Fairness

No step of a user, no failure and no end of a program is fair. Weakly fair is, for
each process, the disjunction of the steps it takes by itself once a user has
started it: `AppendsEnd` relies on the scheduler and on `LK_LOCK`, which gives up
after ten tries, so a lock held for ever does not matter; `AttemptsEnd` on the
same; `DeliveriesEnd` on the scheduler and on appends that return or raise, which
they do because a file has an end (`AppendsEnd`). In `Inbox` the progress callback
within an append is not part of the fair steps, as it could otherwise be taken
for ever, and nothing is assumed of the window: the three seconds of
`DeliveryProgress.close` are what ends the wait. `ButtonComesBack` relies on the
scheduler for the discovery threads and on the window's message loop for their
messages, each of them alone: no user action is fair, and a gateway's list has an
end. `SaveEnds` relies on the scheduler only; a save has no waits.

## 5. Disagreements between code and documents

Two are runs that must find the violation; `PROJECT.json` quotes the lines.

* `store_race`, `P:304`: two programs that deliver at the same time may overwrite
  each other; the audit report says the second is refused (`WIN7_AUDIT.md:168`).
* `profiles_refill`, `AD:3209`: the slot of a profile's key is named by its id, which
  every agent counts from 1; the change log says that each agent keeps profiles of
  its own and that choosing one fills in its key (`CHANGELOG.md:27-28`).

The others were met while modelling. The models do what the code does, and no run is
spent on them, because they show in one step or in a short sequence:

* `retrieve.py:387` calls `extract_all` with four positional arguments; it takes
  three and a keyword (`P:417-421`). After a temporary code was accepted, and spent, the
  program ends with a `TypeError`; `WIN7_AUDIT.md:13` says that the six-digit code
  exports all files. In `Retrieval`, `CallFails` is the only step from there.
* `P:437`: the first pass never counts what lies behind a damaged header; the comment
  at `P:472` says that all that are left count as damaged.
* `inbox.py:200-206`: what the window's cancel button writes has a mark in front and
  a line end behind, so `cancelled` ("whether the user has clicked cancel") is never
  true, and `Recognised` holds for no text.
* `AD:3055`: the note of the multi-agent switch is read before the confirmation and
  not again; a second AgentDock makes it stale, and the user's value is forgotten,
  where `CHANGELOG.md:78-79` says that the original value is recorded at the first
  switch and given back. `disturbed` remembers it.
* `AD:3027` and `AD:3071`: a switch on whose undo fails clears its note, and
  `settings.json` keeps the Manager's `"1"` or half a file. `CHANGELOG.md:78-82` says that the
  recorded value comes back when the mode is switched off and that a failure of the
  second file rolls back the first. The value is then only in the backup to which the
  message sends the user. `stranded` remembers it.
* `D:330`: `run_icacls` unpacks its one string into characters, so the lock phase of
  every deployment raises and the program ends with "部署未完成", with all files written;
  `WIN7_AUDIT.md:11` describes the lock as the last step. With `--inbox` on the command
  line the program does not get that far: `retrieve_dir` has no value at `D:531`.
* `AD:4896-4907`: the timer's handler asks for a discovery the way the input handlers
  do, which arms the timer again: with a working timer, input never starts a probe,
  which `CHANGELOG.md:118-120` says it does, 400 ms after the last change.
* `AD:4649` and `AD:4691` warn of a protocol that is missing or unknown only while no
  model is known, that is, when the discovery failed or was forgotten.
* `AD:3240-3243` says that a blank slot is rejected when it is read; it is read back
  as a key of one space.
* `AD:2585-2609`: one list of active names serves both agents: saving for Claude Code
  stops the injection of the key that Codex needs (`README.md:45-46` of AgentDock says
  that launching Codex injects it), and the other way round.
* `AD:3102` and `AD:3168-3173`: an import, a save of Codex without a key or back at its
  login, and a save whose last write fails leave the list of active names alone, so an
  earlier key stays in every launch. `README.md:111` of AgentDock says that after a
  change of provider only the keys needed are active and earlier ones reach no other
  session; the comment at `AD:4702-4704` says the same of one case. `SavedTogether`
  says what is true: a launch takes the key chosen last.
* `AD:4700-4714`: the wizard's address is saved whatever the provider is, and choosing
  another one does not clear it (`AD:4389-4404`, `AD:4925`); an empty one is merged into
  the file, which keeps the old address. Either way the official key or session goes to
  the gateway; `CHANGELOG.md:148` says that the old gateway's credentials are
  switched off there.
* `AD:3099-3101`: Claude's thread stores the new key before it replaces the file, Codex's
  after it (`AD:3167-3169`): a failure or an end between the two leaves the old address
  with the new key, or the new address with the old key. No document
  speaks of this. `SavedTogether` excepts the very file or credential
  that was written.
* `AD:3140-3142` and `README.md:50` of AgentDock speak of a unique temporary file; its
  name is always the same, and two programs share it.

## 6. Proofs

The theorems hold for all values of the constants that satisfy the named
assumptions of the modules: `StoreAssumption`, `AccessAssumption`,
`InboxAssumption`, `TeamsAssumption`, `DeploymentAssumption`, `RetrievalAssumption`,
`DiscoveryAssumption`, `ProfilesAssumption`, `SaveAssumption` and `NameAssumption`.
They say that sizes and bounds are natural numbers, that bodies are not empty, that `NoOne`
is no process, that every slice has one code, and that the special values (no key, a
blank, an address that was not typed) are none of a user's and not each other. Any
number of processes is allowed, also infinitely many.

| module | theorem | property |
| --- | --- | --- |
| `PigeonStoreProofs` | `TypeCorrect`, `LockIsExclusive`, `StoreKeepsItsSize`, `HeaderComesLast` | `TypeOK`, `LockDiscipline`, `StaysInStore`, `HeaderLast` |
| | `OnlyRacesLose`, `SoleWriterKeeps`, `SoleWriterImplementsLog` | `LossNeedsRace`, `DeliveredKept`, `ImplementsLog` |
| `TemporaryAccessProofs` | `TypeCorrect`, `CountsRefusals`, `AccessIsOneTime` | `TypeOK`, `RefusalsCounted`, `ImplementsGate` |
| `InboxProofs` | `TypeCorrect`, `FilesInOrder`, `GateIsPassed`, `TrialBeginsOnce`, `LeavesNoWindow` | `TypeOK`, `StoredInOrder`, `GateHolds`, `TrialKept`, `WindowGone` |
| `AgentTeamsProofs` | `TypeCorrect`, `KeepsFlag`, `NoteCanBeRead`, `FailuresRestore` | `TypeOK`, `FlagKept`, `RegistryWhole`, `FailureRestores` |
| `RetrievalProofs` | `TypeCorrect`, `CountsAddUp`, `OverwritesNothing`, `CopiesAll` | `TypeOK`, `Accounted`, `FilesKept`, `Complete` |
| `DeploymentProofs` | `TypeCorrect`, `KeepsAuthor`, `FromOneDeployment`, `RecordsFollowStore` | `TypeOK`, `AuthorKept`, `OneDeployment`, `RecordsMatch` |
| `WizardProofs` | `TypeCorrect`, `AnswersTheForm`, `AsksWhileShown`, `ShowsWholeLists` | `TypeOK`, `AnswerForForm`, `NoProbeAfterClose`, `OffersWhole` of `ModelDiscovery` |
| | `ProfilesTypeCorrect`, `SlotsFollowLists` | `ProfilesTypeOK`, `SlotsMatchLists` of `Profiles` |
| `ConfigSaveProofs` | `TypeCorrect`, `KeepsTogether` | `TypeOK`, `SavedTogether` |

`SoleWriterKeeps` also has `Chained`. `WizardProofs` extends two models that share no
variable; the constants, types and specification of `Profiles` have names of their own
(`Agents`, `ProfilesTypeOK`, `ProfilesSpec`, ...) so that one module can.

**Store.** `BaseInv` has the types, the lock and what a process between lock and
unlock may rely on; `WorkInv` adds where the file and the disk agree while
somebody holds the lock (the body stands on the disk before the header is
written), which gives `HeaderLast`. `StoreInv` adds, unless `raced`, `LogInv`: committed
records are disjoint and chained, the tail is free, everything delivered is
committed on the disk, and the offset of whoever holds the lock is the tail. None of
the properties is inductive by itself: `DeliveredKept` says nothing about the
offset of a process that is about to write. `SoleInv` adds that a single writer
cannot be `raced`, and with it every step maps to a step or a stutter of
`MailboxLog`: a header that reaches the disk (by a sync, or by a power loss that
keeps it) is `Add`, a return is `Acknowledge`. `SoleWriterKeeps` and
`SoleWriterImplementsLog` assume that there is one writer.

**Access.** `AccessInv` is the types, `LockOK` (who is between acquisition and
release holds the lock), `CountersOK` (both copies count the refusals, the copy of a
program about to write is the current one, and a refusal about to be synced is
counted already) and `GrantsOK` (a slice that was granted is spent on the disk; one
that is about to be is spent there before the program gives the lock back, and only
one program has it). The last
gives the refinement to `OneTimeGate`: `Sync` and a power loss are `Spend`,
`Return` is `Grant`.

**Inbox.** `InboxInv` adds to the types `StoredAt` (at every point of the
loop the files before the one at hand are stored, and a delivery that will be
reported as done has stored all), `GateAt` (a program past the gate saw an
activation or a date, and neither is ever taken back), `TrialOK` (unless two raced,
one program writes the trial file, and only before there is any date) and
`WindowAt`. Each step lemma has a case per action; `StepOthers` says once that
a step of one program leaves the others alone.

**AgentTeams.** `TeamsInv` says, unless somebody disturbed it: one program at a time
is between its reads and the end of its switch, the note is whole, and at every point
of the switch (`AtOK`) the files and the note are what the program read or what it has
replaced so far, with the backup that putting one back needs. `FlagKept` alone does not
say which of the two files has been replaced, and so not what putting one back does. While
a failed undo is remembered, `FlagBackedUp` takes its place: backups are never deleted, so
only the failure itself needs an argument.

**Deployment.** `AuthorInv` says that every author's key anywhere (in a job, a loaded
delivery program, a drive, a record) comes from a deployment (`Traced`); that the private
key of each deployment is in its kit (`KitsKeep`); and that a program which may still
write into a kit is alone there, with no key in it (`KitsFree`), the last two unless the
kit is shared. `AuthorKept` speaks of records only, and says nothing of a
program that is about to overwrite a kit. What comes between the check of the folder and
the writing of the key is in `KitsFree`, so that only `Choose`, `WritePrivate` and
`TearPrivate` need an argument; `Untouched` covers the rest.

`OneInv` adds, for each drive that two programs have not deployed to at a time, which
program is at work there and how far it has come, file by file (`Stages`): what comes
before its step is of its key, what comes after is gone. `OneDeployment` by itself would
allow a program in the middle of its writes to meet a store of an older deployment.
Where a store is, its kit is complete (`KitWhole`); a delivery program that has the
drive open holds the keys of its store and, because its own file cannot be deleted
while it runs, keeps a deployment from getting past the clearing (`Used`), which is
what `RecordsMatch` needs.

**Retrieval.** `RetrievalInv` says where each of the three passes is among the records
(`PassAt`: the second never leaves what the first counted, and the first ended at the end
or at a damaged header), that every record before the one at hand has one file or one
count of damage (`SumAt`), and that, unless headers are damaged, the passes reach
what was there at the start (`CopiedAt`). The properties speak of the last window only.
`FilesKept` needs in addition that the name that was chosen stays free until the
rename, which holds only while no other retrieval works in the folder (`FolderOK`).

**Model discovery.** `DiscoveryInv` says that one thread is at work and the busy flag up
while it is (`OneBusy`), that an answer, also one half written, is for the form unless the
form was turned (`Answers`), that a list which lacks models of its answer was reset
while it was written (`Whole`), and that a thread is at work while the message of
another is on its way only after a rushed test (`Late`). `AnswerForForm` and `OffersWhole`
speak of what a step shows; what they rest on is what the thread has not yet written.

**Profiles.** `ProfilesInv` says when the wizard's copy of a list is the stored one
(`Same`: for every id of which no write failed, and in one direction also for lists
that were overrun), that who has an id in a list has used it (`Used`), and
that lists fit the array until one is remembered that did not (`Room`). Without `Same`
a handler that stores its copy could drop a profile whose key stays in its slot. The
new id is fresh because it is greater than the `Max` of those in the list; that a
finite set of numbers has a maximum comes from the well-foundedness of `<`
(`HasMax`), without an induction.

**ConfigSave.** `SaveInv` says what a thread has read (`AtOK`), that the writes before its
step are in place when no other save overlaps it (`Alone`), and which parts of an
agent's last complete save are still there (`Kept`): the file until a rename, the key
until a credential of its name is written, the name as long as its credential is not
in `broken`, as a list of names that was read has it already. `Chosen` says that the one list of active names
holds the name in `launch`, and its credential the key. `SavedTogether` says nothing
of what a save under way is about to write, and so is not inductive.

Only model-checked: `AppendsEnd`, `AttemptsEnd`, `DeliveriesEnd`, `ButtonComesBack`
and `SaveEnds`, as liveness under fairness is beyond the provers used here, and the two
runs that find a violation. Every other property of a passing run is a theorem.

## 7. Not modelled

* Cryptography (RSA, OAEP, AES-GCM, scrypt, the derivation of codes): its
  results are abstracted to right and wrong.
* Installers, updates and process control of AgentDock: threads that run programs of
  others under one busy flag. What they do is those programs' own; the flag is taken
  and given back as in `ConfigSave`.
* Of the wizard: the rows and sizes of models, and the form's checks of what is typed.
* The text transforms of AgentDock, except for what they do to the flag, the block,
  the gateway's address and the key: pure functions with tests beside them.
* The older format of the license, the activation tool, painting and layout:
  nothing other parts read.
* The OCI capacity watch: a query of one service; its state is kept elsewhere.
* Packaged, extracted and vendored material. Most of the repository's lines are of
  this kind, among them the copies of PIL, cryptography and other libraries under
  `projects/SecurePigeon/一键部署到U盘/_internal` and its siblings; they are third-party
  code that the programs only call, and say nothing about them.

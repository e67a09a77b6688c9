# A verification development for smt

smt is a command line tool that sets up and deploys small services: it keeps
connection settings in `~/.config/smt.config`, installs itself on a server,
copies a project's assets there, registers the service in
`/etc/smt/smt.config`, and keeps the project's secrets in a Docker volume. It
has no daemon and no locks. All of its state is in files that it loads whole,
edits in memory and rewrites in place, locally with `os.WriteFile` and remotely
with shell commands over SSH; an operator can interrupt it anywhere, and several
operators may work on one server. These modules say what that design does and
does not guarantee.

## Inventory

| Component | State | Operations | Hard part | Correct when |
|---|---|---|---|---|
| Client config store (`config/client.go`) | `~/.config`, `smt.config` | load, create with `-force`, save | truncate-then-write; a file that exists but does not parse | one command changes one entry, or the store is lost as a whole |
| config command (`command/config.go`) | the loaded copy; what its prompts have read | set, delete, show, validate | prompts between load and save, each with a scanner of its own; default server kept by hand | the default names an entry, entries are complete, what is typed is an answer |
| Flag resolution (`command/flags.go`) | none | server and properties for a remote command | trusts the config | refuses only what the operator asked wrongly |
| Registry (`config/server.go`, `service/`) | `/etc/smt/smt.config`, `config.json` per service | init, load, save, find service | `test -f \|\| echo`, whole-file save over SSH | no service forgotten, none at another's path |
| deploy (`command/deploy.go`) | none of its own | volume, registry, find, ship asset by asset with commands that follow a change, save | long gap between load and save; previews; a command lost between an asset and itself | success means usable; what was shipped is what runs |
| service (`command/service.go`) | none | list, start, stop, restart, status, remove | reads what deploy wrote | actions act |
| install (`install/`, `command/install.go`) | binary, `/etc/smt` | directory, transfer, init | interrupted transfer | success means complete |
| secrets (`command/secrets.go`, `secrets/`) | names in `smt.json`, values in the volume | list, set, remove, show | two stores, one listing at the start | names recorded first; success means done |
| Project config (`project/`) | `smt.json` | find, load, save | in-place save | as for the secrets command |
| Local processes (`utils/localproc.go`) | goroutines, pipes | execute | two scanners, two copiers, one waiter | returns, with all of the output |
| new (`command/new.go`), templates (`file/file.go`) | the project directory | choose, make, copy, go mod, save | no cleanup on failure, retries, choice long before use | `smt.json` comes last; a lone project is whole; nothing is overwritten |
| Tables (`utils/table.go`) | none | comparison of two lists | sorted merge, empty lists, columns | each list is shown as it is |
| SSH client, dispatch | none | dial, switch on the command | - | not modelled |

The commands meet in files only. `resolve` (flag resolution) reads what `config`
wrote, in the Build phase of every remote command. `deploy`, `install` and
`service` meet in the registry and `config.json`; `deploy` and `secrets` meet in
the Docker volume and in `smt.json`, which `new` writes first; `new` and its own
retries meet in the project directory. The full list of hazards, with their lines,
is in `PROJECT.json`.

## Modules

* `InPlaceFile` - a JSON file rewritten in place: absent, empty, garbled or ok.
  A write is a truncation step and a write step. Two writers that both truncated
  put one text over the other; the result parses if the second is at least as
  long (a longer text leaves a tail that `json.Unmarshal` rejects), which the
  model leaves open. `data` is the last parseable content.
* `ClientConfig` - `smt.config` and all commands on it. `Begin` is the Build
  phase with its `MkdirAll`; `LoadFails` and `Load` are `LoadClientConfig`;
  `OpenFile`, `WriteFile` and `WriteFails` are `SaveClientConfig`; `Show`,
  `Delete`, `Set`, `SetFails` are the branches of `Invoke`; `Resolve` is
  `ValidateServerConfigFlags`; `Crash` ends a command anywhere. A command line
  is a record of its flags, `actions` the set of its action flags.
* `ConfigStore` - the abstract store; `ClientConfigStore` - the refinement
  mapping: a file that is empty because a writer is between its two steps stands
  for its old content, an empty file with no such writer for a lost store.
* `ClientConfigOverlap` - `ClientConfig` with a history variable, `overtaken`:
  on which servers' entries a command's copy is out of date. It reads the steps
  and restricts none. `ServiceRegistryOverlap` and `SecretsOverlap` are the same
  for the registered paths a deploy has loaded and for the one secret a command
  is about. With them one can say what overlapping commands may undo, and that it
  is no more than what they overlapped with.
* `ClientConfigProofs` - theorems about `ClientConfig`, and that a single
  operator's commands implement `ConfigStore`.
* `DockerVolumes` - the three Docker commands as functions on the set of volumes.
* `ServiceRegistry` - one server with `install`, `deploy` and `service`; one
  step for each remote shell command, two for those that redirect into the
  registry and for the transfer of the binary (`StartTransfer`, `Transfer`). Of the assets it knows only what the directory holds as a whole:
  `ShipSome` changes that, any number of times, `Ship` is the asset that makes it
  this version (or a mixture, if somebody else ships to the same directory), then
  come `config.json` (`PutConfig`) and additional assets (`ShipRest`).
  `HalfShipped` is what a failure or a kill leaves. `SecretsElsewhere` is what
  secrets commands do to the volumes meanwhile.
* `ServiceRegistryProofs` - theorems about it for any number of operators, and
  what success means to a lone one.
* `Rollout` - what those steps abstract: the assets of `buildAssets`
  in their order, each followed by the commands its change calls for. `pc` is the
  asset being shipped or the command being run, `lost` the commands a deploy
  stopped before. An asset is compared and transferred in one step (`ShipAsset`);
  `Stop` may leave it there, not there, or cut short. `Boot` is the server's.
* `RolloutRegistry` - the refinement mapping from `Rollout` to the shipping steps
  of `ServiceRegistry`. A deploy at any asset before `config.json`, or at one of
  their commands, is at "ship"; at `config.json` it is at "put", at the additional
  assets at "rest", and one that has succeeded is where it saves the registry.
  `RolloutProofs` - theorems about both.
* `NewProject` - `smt new`: `Begin` and `Refuse` are `ResolveProjectPath` in the
  Build phase, `MakeDir` to `WriteConfig` the steps of `Invoke`, two for every
  file and for `go mod init` (look, then write), `Stop` a failure or kill at any
  of them. A path is the sequence of its names. `users` is history: who worked
  in a directory. `NewProjectProofs` - theorems about it.
* `Tables` - `BuildComparisonTable` as a machine: sort, then a row a step. Names
  are numbers in the order of the strings, a line is its name, the columns of its
  marks and its length. `Measure` is the choice among the four cases before the
  widths: which lists `slices.Max` is asked about, and a panic if an empty one is
  among them. `TablesProofs` - theorems about it.
* `Prompts` - `getInput` and `promptForInput` with the scanner that each prompt
  makes anew. Input is a sequence of characters of which only newlines are told
  apart; an answer is the pair of places it lies between. `PromptsProofs` -
  theorems about it.
* `Secrets` - `smt secrets`, with a checkout for every operator and one volume.
  A secret is a file that the container's shell truncates (`OpenSecret`) and
  `base64` fills (`WriteSecret`), so two operators' values may mix, and a failing
  write leaves a beginning; who writes a secret that another operator has removed
  meanwhile writes a file with no name (`unlinked`). `Elsewhere` is what deploys
  and the secrets commands of other projects do to the volumes meanwhile.
* `Smt` - `Secrets` and an instance of `ServiceRegistry` with the same volumes: a
  step is one of a secrets operator or one of a deployer. `SecretsProofs` -
  theorems about `Secrets` and `Smt`.
* `LocalProc` - `utils.execute` with the goroutines of `os/exec`. Output is
  counted in pieces that fill one unit of the scanner's buffer.
  `LocalProcProofs` - theorems about it.
* `MCClientConfig`, `MCServiceRegistry`, `MCSecrets`, `MCSmt`, `MCRollout`,
  `MCNewProject`, `MCTables`, `MCPrompts` - instances for TLC.

Definitions whose comment names a defect (`DeleteKeepingDefault`, `TestNonEmpty`
and so on) are variants of the definition they precede; nothing uses them.
`PROJECT.json` says which property each one breaks.

## Runs

| Run | Shows | Bounds |
|---|---|---|
| `config_one` | refinement of `ConfigStore`, resolution fails on names only, an unreadable file stays unreadable | 1 operator, 2 servers, 2 values, every form of the command; missing directory, missing file, `{}`, a file with a default and a pass phrase |
| `config_two` | well-formed configs under interleaving; a write undoes only what it overlapped with | 2 operators, 8 command lines chosen so that set and delete of the same and of different servers overlap |
| `registry_one` | success of deploy and install means complete; a binary cut short stays until `-force` | 1 operator, 2 services, one with a directory of its own, 2 versions and their mixture; with and without `config.json` |
| `registry_two` | no service forgotten or added, a save undoes only the paths it overlapped with, previews ship nothing, a broken registry stays broken, a `config.json` cut short blocks its service's deploys | 2 operators (interchangeable) deploying the same and different services, 1 version |
| `secrets` | names first, creation by consent, a `smt.json` cut short stops its operator for good, success means done unless the other operator changed the same secret | 2 operators (interchangeable), all commands on one secret, 2 values for it, lists that may hold another name, 2 volumes |
| `smt` | secrets and deploys implement their own modules side by side, the volume is made on purpose | 1 secrets operator with every action on 1 name, 1 deployer of 1 service with the project's volume and another, dry or not, `install` and `service` |
| `localproc` | complete output, return or permanent hang | 2 streams, lines of 0 to 3 units against a buffer of 2, up to 4 pieces |
| `rollout` | restarts see new files, only lost commands are missing, two of them for good, a new compose file alone restarts nothing; every step is one of `ServiceRegistry`'s | 1 operator and service, every asset, 2 interchangeable contents; edits of compose file, units and images between deploys (a site, config.json or additional asset changes by being cut short) |
| `new_project` | `smt.json` last, lone projects whole, nothing settled is touched | 2 operators, a directory and one below it, 2 command lines, 2 template files, 1 package |
| `tables` | the table shows the lists, each name once and in order, and nothing panics | all pairs of lists of up to 3 of 3 names, repeated names included; headers of 0, 3, 4 and 5 characters |
| `prompts` | a terminal is heard, a file answers one question, prompts end | all inputs of up to 7 characters (a file's are read at once, as those of any file below 4096 bytes), up to 3 questions |
| `secrets_filter` | a volume whose name contains the project's (`my-app-secrets` that of `app`, `app-secrets`) hides its absence | 1 operator |

`secrets_filter` ends in a violation; the finding in `PROJECT.json` quotes the
comment it refutes. Two operators are enough for the interleavings: every
conflict is between one process that loaded a file and one that wrote it since.
`smt` needs no more than one of each, since what it adds to `secrets` and
`registry_two` is that one of either acts between two steps of the other.
Two servers, services and names distinguish "this entry" from "another one"; a
second value distinguishes old from new. In `secrets` all commands are about one
name, since a command touches its own secret only; the other name is in a list or
not. No counter is bounded except
`OutputMax`, the pieces a command prints, and the operators may give any number
of commands one after another. Seven characters hold three answers with their
newlines and one character more; three names let one list run out while the
other goes on, and let a name be in both, in one, or twice in one. In `rollout`
and `new_project` a second content or command line distinguishes this command's
from an earlier one's, and one directory below another is all that
`ResolveProjectPath` looks at.

Other disagreements met while modelling, visible in the models without a run of
their own:

* a first deploy says "service entry does not exist in server config; using
  default path" (`deploy.go:153`) of a *registered* service without `config.json`
  only; of one that is not registered it says nothing but fails
  (`server.go:53`, `FindService`). `ServicesStay` shows that in consequence no
  command ever registers a service: an administrator has to;
* the help of `-set-default` says "set the given server as the default as well as
  perform any other operations" (`config.go:57`), but every form of the command
  except `-set` returns before it looks at the flag (`config.go:163`);
* the help of `-force` says "create config file if it does not exist"
  (`config.go:62`), but a missing `~/.config` is created with the mode
  `os.O_RDWR`, that is 2, without any permission for its owner (`client.go:30`),
  and stays in the way (`WedgeIsPermanent`);
* the help of `deploy -show` says "Do not actually copy anything, just show
  compiled manifest and exit" (`deploy.go:67`), but the secrets volume
  (`deploy.go:137`) and an empty registry are created first;
* `service -start` "Starts a service" (`service.go:69`), but its case is empty and
  Go does not fall through (`service.go:203`): it reports success and does
  nothing, and so do stop and restart;
* `config -set` panics on a document without `servers` (`config.go:226`, action
  `SetFails`);
* the help of `-server` promises that "directly-provided properties will be used"
  (`flags.go:29`), but without a default server the command is refused
  (`Resolution`);
* the test for an empty volume name (`deploy.go:136`, `secrets.go:177`) can never
  be reached with one, since `LoadProjectConfig` refuses it (`project.go:61`);
* the list of assets calls for no command when the compose file changes
  (`deploy.go:224`), so a deploy with unchanged images leaves the service running
  with the old one.

### Fairness

Safety is checked without fairness. Two modules have a liveness property.
`LocalProc` has it under weak fairness of each goroutine, which Go's scheduler
gives, and of the command's exit, since a command that never ends is waited for
by design; nothing is assumed of the command's output.
`Prompts` (`QuestionsEnd`) is sequential code under weak fairness of the next
step: code that can go on does, and standard input brings another
character or ends, as every finite input does. An operator who types empty lines
for ever is asked for ever. The deploys and the new command have no liveness
property: a command may be killed anywhere, and that somebody tries again is not
the program's to promise.

### Deadlock

Every operator can always start a command, so the file models, `Smt`, `Rollout`
and `NewProject` are checked for deadlock. `Tables` and `Prompts` end
(`QuestionsEnd` says so of the latter). `LocalProc` really stops: that is the hang
`HangIsPermanent` describes; `ReturnsOrHangs` says the hang is the only way to
stop. The runs of these three do not check deadlock.

### What is assumed of the code outside `src/`

* The runner that executes a manifest goes through the assets in order, runs the
  commands of an asset that changed (`on_changed`) or was not there
  (`on_created`, where `on_changed` holds as well), and stops at the first
  failure. Only `-force` makes a missing directory.
* `systemctl enable --now` starts a service that is not running and leaves one
  that is; `ln -s` fails when the link is there; nginx loads the sites that are
  linked. The project is edited between deploys, not during one.
* `go mod init` refuses when it finds a `go.mod` and writes one otherwise; nobody
  deletes directories while `smt new` works.
* A terminal gives a reader one line, a pipe any part, and a file everything: it
  is taken to be shorter than the 4096 bytes of a scanner's first read. The second
  prompt on a longer one would start in the middle of it, so `FileAnswersOne` and
  `OneAnswer` are about files below that size.

## Proofs

Every theorem holds for any values of the constants that satisfy the module's
named assumptions; those say that sentinels such as `None` and `NoPath` are not
values, that hand-written files are well-formed, that buffers have room, and
that no name in a table is longer than some bound (the names are names of files,
so 255).
Two more conditions appear in the statements that need them:

* `OneOperator` - all commands are one operator's, one after another, killed or
  failing anywhere. With two, a save may overwrite what another command has
  reported as done, so the theorems about the success of deploy and install, and
  that the config implements its store, would be false. What overlapping commands
  may undo is the subject of the two theorems `OverlapsOnly`.
* `ExactMatches` - no volume's name contains another's. `docker volume ls
  --filter name=` matches parts of names, and run `secrets_filter` shows what
  happens without the condition.

All safety arguments have the same shape: an invariant `IInv` gives the types
and, for each operator, what its position in the command says about its own
command line and copy; lemmas `MoveKeeps` and the like say that a step of one
operator preserves it, and each action is a case of them.

**Client config.** `ClientConfigProofs` needs in `IInv` that every running
command has passed Build's checks (`DeletesNameServers`, without which `-delete`
could name no server) and that the file's last good content *and* every loaded
copy are well-formed. The second half is why overlapping writers do no harm
(`StaysWellFormed`): whichever copy is written last was itself well-formed. The
lemmas `WithoutKeeps` and `WithKeeps` do the work: deleting the default unsets
it, and a prompt never returns an empty property (`PromptTypes`).
`RefusalsSound` follows with `ResolutionOfWellFormed`. For `WedgePermanent`,
with an unparseable file and no command past its load, every step but `Begin`,
`LoadFails` and `Crash` is disabled. `Refinement` (under
`OneOperator`) adds `FileInv`: at each point of a command the file is what
this command last made it, and the copy about to be saved is the file's content
after one edit. Creating and overwriting map to one abstract step each, taken at
the write; a truncation maps to a stutter, and a kill after it to `Lose`.

`OverlapsOnly` rests on `CopiesAgree`: from its load to its write, a command's copy
is the file except for the server it edits and those that moved since
(`overtaken`), and a command that creates the file holds the empty config there.
A step that moves an entry is a write (`FileMoves`), and what a write moves the
copy disagreed on.

`NilMapsStay` needs that a copy in memory
has the nil map of the file it came from, wherever that copy may still be
written (`NilFits`): no edit makes one or mends one.

**Registry.** `IInv` of `ServiceRegistryProofs` says that an absent registry
registers nobody, and that a loaded copy registers exactly the services that the
file does: no command adds or removes one, it only replaces paths. From that,
`ServicesKept`: a save of a stale copy may undo a path, never add or drop an
entry. An operator about to initialise the registry found it missing, hence with
nobody registered, and nobody can have registered since (`FreshFits`).
`PathsKnown` strengthens this for the paths: for one and the same registry that
an administrator wrote, the file, *every* loaded copy and the path of every
deploy under way are that registry's or the default directory of the service they
are of (`PathsFrom`). It has to be one registry for all, since a save writes a
whole copy back.
`OverlapsOnly` (`CopiesAgree`, here for the paths) is the same argument as for the
config: a copy differs from the file in the deploy's own service and in those that
moved since it was loaded. `WedgePermanent` as above. `CutConfigsBlock` follows a directory whose
`config.json` was cut off: whoever could write there has passed the look-up of a
service that leads there, and with `Blocked` nobody has or can (`ConfigWrites`,
`PlacesFound`). `HalfBinaryKept` looks at the two steps that touch the binary.
`PreviewsAreHarmless` first shows that
a preview is never at a step that ships, writes or saves (`PreviewsStop`), then
that no other step of a deploy changes what is protected. The last part
(`DeploySuccess`, `InstallSuccess`) carries the state of the server along the
command, one conjunct for each step passed (`DeployDone`, `InstallDone`).

**Secrets.** `WriteAhead` follows from `NamesFit`: at the steps that touch the
volume, `smt.json` is what the command saved. Each operator has a checkout of
its own, so this holds for any number of them. `Consent` shows that under
`ExactMatches` a volume found by the lookup exists, so `docker run` cannot
create it. `SuccessIsDone` is for any number of operators: `AInv` says of each
that no other has overtaken that its listing is still right about its own secret
(`ListingFits`), that what it has opened is empty or its own, and that nothing is
stored without a volume (`StoredInVolume`); `OthersKeep` that a step of somebody
else leaves that secret as it is or is recorded in `overtaken`. A deploy may make
the volume between the question and the answer; the empty listing that
`EnsureSecretsVolume` returns is still right about a secret nobody has stored.
`CutNamesPermanent` needs no invariant but the types: a load that fails ends the
command.

**Secrets and deploys.** `Composition` proves that steps of `Smt` are steps of
`Secrets` *and* of `ServiceRegistry`: a step of either side is its own module's,
and to the other it is that module's step of the environment (`Elsewhere`,
`SecretsElsewhere`) or nothing. All it needs of the state is that whoever makes
sure of a volume deploys a project, which has one (`SInv`), and what the two
sides do to the volumes (`SecretsVolumes`, `DeployersVolumes`). Every theorem
about one of the two modules thereby holds on a server with both. `Purpose` joins
`VolumeThere`, the invariant of `Consent`, to the deployers' side.

**Local processes.** `NothingLost` rests on a conservation law: for each stream,
what the command printed is what has been collected for the caller, followed by
what the copier holds, followed by what is in the pipe (`Conserved`). When the caller returns, the
copiers have ended (`JoinOrder`), so hand and pipe are empty. `HangPermanent`
says why the hang has no way out: the copier's write waits for a reader that has
stopped, and only returning would close it. `OnlyHangsStop` is the safety part of
`ReturnsOrHangs`: where no goroutine and not the caller can go on (`AtRest`,
written out as the negation of their guards), execute has returned or hung. It
needs the order of the close and the two receives (`InTurn`); that something which
can go on does is fairness, and stays with TLC.

**Rollout.** The position of a deploy says which assets it has passed
(`Before`), and those are as in the checkout, which is not edited meanwhile
(`InPlace`). That gives `SuccessIsWhole` at the end of the list and
`RestartsAreLast` at the restart. `LostCommandsOnly` follows from `Excused`: at
every moment, what the server lacks is the effect of a command that is lost or
that the running deploy has not come to. `LostEnable`, `LostLink` and
`ComposeOutdated` look at the single step: `ShipAsset` finds the unit files or the
images equal, and a site's file there.

`RolloutsShip` is the refinement, step by step: the first assets and their commands
are `ShipSome` or a stutter (`SomeMaps`, `StutterMaps`), the last before
`config.json` is `Ship`, since by `InPlace` all of them are then the version's
(`AllMaps`), then `PutConfig` and `ShipRest` (`ConfigMaps`, `RestMaps`), and `Stop`
is `ShipFails` or `Crash` by how the deploy ends (`StopMaps`). It is why
`DeploySuccess` may be read as a statement about single assets: what
`ServiceRegistry` assumes of shipping is what `Rollout` does, for any set of
assets and any versions.

**New project.** `IInv` says of every command that its directory is one of
`Paths` and that it is a user of it from `MakeDir` on (`Placed`), that what it has
dealt with is there (`Provided`), and, where it is alone, that all of that is its
own (`Owned`). The lemma `OthersFit` is why interleavings do no harm: a step of
one operator changes its own directory only (`Frame`), takes nothing away there
(`Grows`), and makes anybody else there no longer alone. `ConfigLast` and
`LoneWhole` are the parts `Ordered` and `Kept` of what holds of a directory;
`SettledFinal` follows from `Frame` and from `Begin` choosing what is free.

**Tables.** `Passed` is the loop's invariant: every entry before `i` and `j` has
its mark, and every line printed fits the headers and the lists. Without repeated
names `Ahead` adds that what is still to come sorts after what was printed; with
`Ascending` it is kept by whichever branch prints. `Panicless` needs that the lists
measured are the ones that are not empty (`MeasuredAre`), and a longest name in
them to exist (`LongestIsLongest`), for which the library's theorem on
well-founded relations gives the name that leaves least of the bound.

**Prompts.** `AtTerminal` says that a scanner at a terminal never holds more than
the line it was asked for, so there is nothing to lose when it goes;
`FromFile` that the first scanner has read everything, so the second has nothing
left. `GiveKeeps` does both for a whole line and for the last one.

What is only model-checked: `ReturnsOrHangs` and `QuestionsEnd`
(liveness, which the prover does not do), and the disagreement of
`secrets_filter`, which is a counterexample. The other way round, these are proved
and have no run of their own: `MarksUnderHeaders`, `StopsOnlyHung` (implied by
`ReturnsOrHangs` where TLC checks that), `SuccessShips` and `PathsAreKnown` (less
than what `DeploysShip` with `DeployOkIsUsable`, and `SavesUndoOverlapsOnly`, say
of the same hazards), and the types of `LocalProc`, `Rollout`, `NewProject`,
`Tables` and `Prompts`.

## Not modelled

The SSH connection (a lost one is a command that dies; what pass phrase it is
dialled with is left out with the keys), Docker and systemd beyond the commands
above, the dispatch on the first argument, formatting and logging,
`BuildTable`, `compareSecrets` and `SaveServiceConfig` (no callers), the search
for `smt.json`, the contents of nginx and unit files and of the template. The
template's variables are one value; that `//go:embed` leaves out files whose
names begin with a dot or underscore, and that `IsNotIgnored` looks at a file's
own name and not at its directories', does not show in a set of files. The
prompt for yes or no (`io.go:25`) has the loop of `Prompts` and its hazard: the
answer after it, a secret's value, is lost when both come from a file. A home
directory owned by root would make the permissions of `~/.config` irrelevant; the
model is of an ordinary user.

## Plan

Done: client config, registry, secrets, local processes, rollout, new project,
tables, prompts, each with its theorems; `Rollout` as a refinement of the shipping
in `ServiceRegistry`; secrets and deploys on one server. Left:

1. Two operators who deploy different services to different directories: that a
   success means usable to both, which `DeploySuccess` says of a lone one.
2. Pass phrases: that an entry `config -validate` accepts may be refused by every
   command that uses it (`deploy.go:131`).

# A formal model of PS5 RetroArch

TLA+ modules beside the source of PS5_RetroArch: the parts of the program whose
order of steps matters, model-checked with TLC and, where marked, proved with
TLAPS for every value of the constants. Paths are relative to the repository.

## 1. The system

| Part | Source | State it keeps | Operations | Speaks with |
|---|---|---|---|---|
| Updater | `src/webui_update.cpp` | `.update/{stage,backup,plan,journal}`, `.update-result`, `current`, `quit`, `cancel`, a worker thread | `initialize`, `recover`, `download`, `request_install`, `stop`, `install` | the server's routes, the end of the title or the daemon |
| Transfers | `src/webui_transfer.cpp` | `Sessions` (a map, a lock), each `Session` (fd, writers, ranges, closing, a lock), `commit_lock`, a block buffer per request | `open`, `find`, `take`, `expire`, `discard`, `clear`, `commit`, `Writer`, `Batch`, `parse_range` | the server's upload routes |
| Server | `src/webui_ps5.cpp` | one `Request` per connection, the pool's threads, `state_lock`, settings' files | routes of `/api`, start, stop | page, updater, transfers, scraper, library |
| Page | `webui/app.js` | `transfers`, `jobs`, six lanes | `runLarge`, `runSingle`, `runBatch`, cancel | server |
| Daemon and link | `daemon/webui_daemon.cpp`, `src/webui_link.cpp`, `src/main.cpp` | a socket, `hello`, `ok`/`stale`/`unknown`/`other` and `install` messages, process lifetimes | handshake, replacement, idle exit, install hand-over, the walk over the tiles | server, updater, forwarders |
| Frontend mode, relaunch test | `src/frontend_mode_ps5.cpp`, `src/ps5_game.c`, `src/relaunch_ps5.cpp` | arguments, `game-request.txt`, `game-result.txt`, `frontend.cfg`, the test's record | take, check and refuse a game, go back to the frontend, restart | picker, EmulationStation, LoadExec |
| Scraper | `src/scraper.cpp`, `webui/ps5-media-helper.py` | jobs and their file, workers, tasks and leases, an account and its limit, LaunchBox's indexes | start, cancel, resume, skip, choose, hand out, deliver | server, page, sources, a PC |
| Library | `src/ps5_library.c` | content folders, playlists, per-folder settings | rename at start, scan, make folders | server, RetroArch |
| A game's files | `src/scraper.cpp`, `src/webui_ps5.cpp` | backup, entries, record, media | store, edit, upload, replace, delete | server, scraper |
| Forwarders | `src/ps5_forwarders.cpp` | tile folders and their marks | create, edit, remove, finish | server, daemon, ShadowMountPlus |
| Cores | `src/core_loader_ps5.cpp`, `src/core_threads_ps5.cpp` | mapped images, references, a thread count, a factory thread | load, open, close, create a thread | RetroArch, the cores |
| Memory | `src/memory_ps5.cpp` | mappings, slabs, direct memory, libc's heap | malloc, calloc, realloc, free | everything |
| Audio, microphone | `src/audio_ps5.cpp`, `src/microphone_ps5.cpp` | a ring each, flags; one mutex, one condition | init, write or read, stop, start, close; a worker | RetroArch, the console's ports |
| Input | `src/input_ps5.cpp` | a pad per port, its rumble levels and touch, a haptic thread each | scan, poll, rumble, close | RetroArch, the console |
| Display | `src/display.cpp`, `src/video_ps5.cpp`, `src/display_modes_ps5.cpp` | two buffers, the flip submitted, the menu's frame; a test's record | open, draw, present, test the modes | VideoOut, Vulkan |
| Frame generation | `tooling/framegen/vulkan_framegen.cpp`, `tools/apply-port-patches.py`, `src/ps5_framegen_menu.c` | frames held, a group and its pictures, the governor, the floor, two recorders | hold, generate, present, dump, record | RetroArch's Vulkan driver |
| SMB storage | `src/ps5_smb.c`, `src/ps5_smb_vfs.c` | a connection and a handle per file, its position | open, read, seek, stage, close | RetroArch's VFS |
| Picker, EmulationStation | `frontends/` | nothing beyond the frontend mode's files | choose, launch | frontend mode |
| Shims, diagnostics, vendored code | `src/*_shims.c`, `src/memory_diagnostics.cpp`, `tooling/third_party/` ... | none that the rest depends on | - | - |

Four behaviours are hard. **Crashes**: an update, a renaming of folders, an index
build and a scraper job are sequences of file operations a title may be killed in.
**Threads**: the server answers on a pool, so a session may be committed, cancelled
and written at once, and its descriptor's number reused; 32 scraper workers share
one job; each device has a thread of its own. **Processes**: a daemon and a title
may both run the updater and edit the settings, and the title is itself a chain of
processes that replace one another. **What is outside**: a share, a source, a helper
on a PC, a controller and the shell all may fail, go, come back, or answer late.

What makes each part correct is in `PROJECT.json`, line by line, as its hazards; each
is of a property in section 3, save two: a transfer that begins between the daemon's
count of those in flight and its stop, of which neither the code nor a document
promises anything, and the second process that recovers an install under way, which
nothing in the code prevents (section 4).

## 2. The modules

| Module | Models |
|---|---|
| `AtomicUpdate` | the promise of the updater: a folder that goes from one release to another in one step |
| `Update` | the updater; implements `AtomicUpdate` |
| `Updaters` | two `Update`s over one folder, the daemon's and RetroArch's |
| `Upload` | upload sessions: the server's requests, a step per critical section or file operation, and the page that sends them |
| `Batch` | the uploads of one request, a file or a stream of small ones, through the block buffer |
| `Ranges` | the byte ranges of uploads and downloads |
| `Settings` | what the page edits and RetroArch reads and saves: a quick setting, a core's option, the account |
| `GameStore` | a game's backups, entries, record and media under concurrent requests |
| `Scraper` | the jobs: passes over a chain of sources, workers, pauses, choices, restarts |
| `ScraperPc` | a job whose downloads a helper on a PC leases |
| `Screenscraper` | the source with an account, a quota and a limit of games at once |
| `LaunchBox` | the database downloaded once a month and cut into indexes |
| `Library` | the folders' renaming at a start and the scan |
| `Forwarders` | the home screen's tiles, the daemon's walk over them, ShadowMountPlus |
| `Link` | the title's programs and the WebUI's daemons: the link, the request to install, one daemon giving way to another |
| `Title` | the title as a chain of programs, with the frontend mode and the relaunch test |
| `Display`, `DisplayModes` | the software video driver over VideoOut; the test of every mode |
| `FrameGen`, `Floor`, `FrameRecords` | the pictures generated between two frames; when generation is given up; the dump and the recorder |
| `Cores`, `CoreImage` | the cores mapped, their references and threads; the loading of one file |
| `Memory` | the four allocators behind malloc and free |
| `AudioQueue` | the promise of the audio driver: a bounded queue of frames |
| `Audio` | the audio driver; implements `AudioQueue` |
| `Microphone`, `Input`, `Smb` | the capture driver; the controllers; a file of a share |
| `Update_proofs`, `Upload_proofs`, `Scraper_proofs`, `Library_proofs` | theorems about the module they are named for, and their proofs |
| `Link_proofs`, `Title_proofs`, `Server_proofs`, `Devices_proofs` | theorems about the link and the two updaters as `MCLink` puts them together, about the title with its display, cores and memory in `MCTitle`, about the settings in `MCServer`, and about the four devices of `MCDevices` |
| `MC*` | the instances TLC checks |

Definitions whose comment ends with "mutant" are variants of the one below them with
a plausible bug; nothing else uses them, and they serve to show that each property
fails when the code does.

**Sums.** Most components share nothing with most others, so a run need not take
their product. `MCServer`, `MCLibrary`, `MCDevices`, `MCTitle` and `MCLink` each
check several of them in one run: the variable `part` says which component a behavior
is of, the module EXTENDS one of them and has an INSTANCE of each other, and the
variables of those a behavior is not of are `Off` (or, for the extended one, stay as
they began). A behavior of the sum is exactly a behavior of one component, and a
property reads `part = "x" => ...`; `[][part = "x" => P!A]_PVars` for actions.
Components that do meet are composed for real: the two updaters over one folder
(`Updaters`), the server with RetroArch over the settings (`Settings`), requests with a
scrape over a game's files (`GameStore`), the daemon with the tiles (`Forwarders`),
the page with the server (`Upload`), the helper with the server (`ScraperPc`), the
title's programs with the daemons (`Link`).

### Update

`dest`, `stage` and `backup` give the version of each managed file in the folder and
in `.update`'s two trees (0 is an absent file); `plan`, `journal` and `result` are
the three files of those names. The journal is written in two steps, as `save()`
truncates it first: `jfile` says whether it can be read. These survive `Crash`; the
rest is memory. `main` is what the thread that runs `initialize()` or `install()`
does next, one step per file operation, and `worker` is the download thread. Each
call may fail where the code tests it. Names are numbers in the order of the plan,
and the two that every plan ends with are `Always`.

`Tree` is what undoing a readable journal would give. A step of the updater keeps
it, save the removal of the journal, which switches it to the new release: that is
the refinement. `InterruptRecovery` says whether `recover()` itself may be cut short
or have a call of it fail. The promise holds without, and fails with it (section 4).

Left out: the content of the archive and of the manifest (the worker stages any set
that has `Always`), the network, and the deletion of files by somebody else.

`Updaters` is two instances of it with one folder and two memories. What one process
cannot see of the other is where they meet: `initialize()` decides from a journal
read before the port is tried (`dfound`, `tfound`), a rename finds its source gone,
the port is somebody else's. The daemon tries again each second and installs while it
serves; RetroArch tries once and installs after its server has stopped. The page's
requests reach the one that has the port. Nothing in the code keeps the two apart, and
nothing in the model does: `met` remembers that one recovered an install the other was
at, or downloaded or began to install while the other was at work, and `OneRelease`
excuses a folder of which that is true. `Kills` says whether a process may be killed at
work.

### Uploads and ranges

In `Upload` a request is a record whose `at` names its next step; `Serve` are the
server's steps, `Page` the browser's. An upload stands for its session, temporary
file and client. `openFile` is the process's table of descriptors, the lowest free
number being used next, so a stale descriptor reaches another file. The byte ranges
are whole parts. A lost connection (`LostConnections`) leaves the server working on a
request nobody waits for (`heard`).

`Batch` has the other two ways to send files. A body arrives in pieces cut anywhere,
across headers too; a record's bytes go through the block buffer of `write_block`
bytes to a hidden file that is renamed when whole. Each write, creation and rename may
fail, a connection may be lost, and two requests may want one name; bytes carry the
request and record they are of, so a file shows what was written into it. The answer
names the files that failed and that were skipped, up to `MaxFailed` (64) and
`MaxSkipped` (1024) of them; `Tells` is what the page makes of it for each file.

`Ranges` has `Session::add`, which merges ranges as they come in any order, and
`parse_range` for a download asked for in parts, on integers of `Width` bits, so that
an end may wrap. The reference is the set of bytes.

### Settings and a game's files

`Settings` puts the server beside the title: `webui.cfg`, RetroArch's own files, the
pending options and the marker of an absent core are variables, `pc` the title's place
in its start, sign-in and quit. Every read and write of a file by either is a step of
its own, and `met` remembers that the server and the title each read a file the other
was about to write: what that loses is in section 4. A page's edit is refused when the
scope it shows, the global settings or the core's options, has changed since. An option
the page saves is in a file of its own, which a start of the title turns into the core's;
a core's binary may be removed and put back (`installed`), and without it no option is
offered or applied.

`GameStore` gives each request (`store_media`, `save_meta`, `replace_rom`, `add_rom`, a
deletion, a scrape) the steps of its handler: what it looked at, then what it does.
`Plans` are the trios of requests that run at once. A deletion takes the files the image
names (`Discs`) with it. `mine` is the media the user was told is theirs; a scrape that had
looked before it was marked (`early`) may still store its own over it.

### The scraper

In `Scraper` an action is a section under `lock`, with the reads made just before it
outside the lock. A worker that takes a game copies it in one section (`Copy`), looks at
what is stored outside the lock (`Look`), and enters the turn of its sources in another;
what the page did in between is found there. A game's details are one of its `Kinds`
(`Details`). A game's texts are left out: of a source's name for a game only
whether there is one counts. The sources are of the three kinds the code tells apart:
those that are only asked (libretro's), those with an account's limits and a quota
(`Limited`), and those whose database is downloaded before it is read (`Databases`);
`Covers` and `Offers` say which systems and kinds each has, and `Uploaded` the media a
user put there, which no job replaces. The job's file is a copy that a save makes (at once, or
held back for two seconds, which the model leaves open), and a crash goes back to it.
`Scenarios` say what the page asks for and how often each other event may happen.

`ScraperPc` has the tasks and their leases, the helper's threads and what it does with
a file it has (it asks for more tasks while fewer than `Busy` of its threads are at
work), a lease outlived, a delivery that is late, double or cut. A job is paused when its
database cannot be had and halted when it is cancelled, with tasks leased or not; a game
of several names ends as ambiguous, and its downloads are not asked for. The server's
restarts are in `Scraper`. `Screenscraper` has the account's file, the limit of games
asked about at once and the wait for a place, calls that are refused for the moment
and tried again, and a sign-in while workers wait for answers; the job is paused
in a section of its own, after the one that found the service refusing; `limitOf` is whose
account the numbers last stored were of. Its jobs fetch the media that are missing: the
options to overwrite and to have the details alone, and games of no known system (which end
unmatched without a call), are left out. `LaunchBox` has
the download, the indexes written as `.new` and renamed one by one, `index.done`, and the
indexes in memory, for a job's workers and for the page's `Searches`, which no job's pause
concerns.

### Library and tiles

`Library` has the folders of earlier builds renamed one after the other (or merged,
entry by entry, when the new one is there), the playlists and settings rewritten
after, each call failing, the title dying, or a file being copied in between any two
(the daemon takes uploads while the title starts); and the scan as it is computed, one set of games from the playlists and the folders. Systems of three kinds
stand for how games are found: files with discs and their tracks, DOS programs,
ScummVM data. `LibraryAssumption` is what a plan must be to begin with: files in folders
that are there, no two of one path, and playlists that list files that are there; a
system's two names stand for it alone.

In `Forwarders` a request or the daemon's walk holds `state_lock` from end to end, each
write and each call of ShadowMountPlus being a step; a kill or a silence of
ShadowMountPlus may come between two, and a write may fail. A call without an answer in 20
seconds is told as failed, and `owed` is what ShadowMountPlus may still carry out of it.
The daemon stops serving some time after the title closed, whatever the tiles' state, and
then tries once more; the next may serve by then, so there are two `Daemons`. `home` is
what the home screen shows; `unmarked`, `unheard`, `excused` and `met` remember the answer,
write, kill or request that excuses a property.

### Link

Programs of the title run one at a time (a LoadExec leaves one for the next), so the
link's thread is one `at`, its next step in `run()`, with its `cur`rent connection.
Several daemons may be alive: one that is leaving, one the loader was just given, one
that finds the port taken. A daemon is its place in `main()`'s loop (`life`) and the
flags of that loop as sets. A connection has two ends that close apart: what a
closed end sent can still be read, and a program that died may be counted until the
daemon reads its end. `listening` and `http` are who has ports 6770 and 6769.

A turn of the loop is several actions, in the order of the code only where it
matters: an install and a stop need every connection read (`Drained`), as both come
after the reads of their turn. Delays are choices: five or thirty seconds may pass at any time,
save that an answer comes later than five seconds at most `Budget["late"]` times and
that a connection and a hello do not outlast `ps5_webui_link_wait`'s eight seconds.
The folder is the number of its build, which `EndInstall` raises and so does somebody
who copies another build over it (`Replace`).

An install waits for the links to end, not for the programs: one that was opened in
the last five seconds and is still connecting may run through it. That is the code's
choice, so no property forbids it; `LinkedIsCounted` is about those that are linked.

Left out: the hello of another title, the names of frontends, and the limit of sixteen
links, of which one program uses one or two.

### Title

`image` is the program that runs (`eboot`, the picker, EmulationStation, a tile) and
`pc` its place; a LoadExec puts the next in `shell`, which the console may carry out,
refuse, or accept and forget. Games are numbered as they are asked for, and `ran`,
`told`, `answered` and `cut` remember what became of each, which is what the properties
are about. The title may be killed and opened from a tile at any step within its
`budget`, and updated: by the daemon while no program of the title runs but a tile's, or
by RetroArch itself as it quits; the build that comes may have other programs
(`Builds`), so a picker or an EmulationStation asked for may not be there. The arguments
are a program's `mode` and what it was opened with. Which core a game is given follows
`check()` and `take_forward()`: the one named, the playlists', or the one
`cores_listing()` finds for the file (`Genesis` is genesis_plus_gx, which is given what
several Sega cores list). The relaunch test is armed by a file and counts itself by its
record; it may be armed for any program (`Armed`), or by a file it cannot read
(`Unreadable`), but not for one in game mode, which only a frontend starts: that is
`TitleAssumption`, and without it a stale request would be run. Its restart takes the
place of what the program was started for, so a game asked for in that moment is among
those whose answer is lost (`cut`), as after a kill or an update. The files of the two
other tests decide what a start from the home screen opens.

### Display and frame generation

`Display` has two buffers, the flip that was submitted and the one on the screen; a
picture is its number. Every call of the opening and each flip may be refused, and the wait
for the vblank, whose result the code does not look at, may fail (`early`).
`DisplayModes` is the armed test: each mode's objects, its frames, and a title that
ends inside it.

`FrameGen` has the new frames of a game and the pictures due between two of them.
Times are whole units chosen so that every group's are whole: the code has doubles of
intervals with a tolerance of 1e-6. A call of the driver is an action: a new frame
(with the size it has, whether the generator could be made for it, how many calls the
clock says were skipped, and what the last group cost), a frame that repeats, a present
that shows the next picture. A picture is the two frames it is made of and where it
lies between them. What a network computes of them is data.

`Floor` has the windows of two or three seconds at whose end `ps5_fg_osd` compares the
calls a core made with those it declares. `FrameRecords` has the dump of frames with
their pictures and the recorder of presents: a copy is in a buffer only once the device
has run the command buffer of its present, which a later present shows.

### Cores and memory

`Cores` has the main thread in `ps5_core_dlopen` and `ps5_core_dlclose`, the factory
thread, the requests of threads by cores, and each thread's end in three steps: its
key destructors, its count, its stack. `CoreImage` reads a file part by part, any of
which may be unfit, and gives back what it held when it is refused. `Memory` has a step
per allocator tried and one per copy of a resize, for two threads; blocks remember what
was written in them. A slab's slots are taken from the first that is free, as its bitmap is
searched.

### Devices

`Audio`: a frame is its number, so order and loss can be seen. A critical section of the
mutex is a step; AudioOut is called outside it. `waiting` is who sleeps on the
condition variable; a broadcast empties it. The bytes and the silence that fills a
grain are left out. `Microphone` is built the same way; a sample says in which session
it was captured and whether the console was muted. `Input` exercises the users, the
touchpad and the rumble in turn (`part`), as they share no state. `Smb` has one file, a
caller that reads and seeks, and the loader that stages it; `cursor` is where a local
file would be, which is what its answers are compared with.

## 3. The runs

| Run | Module | Question |
|---|---|---|
| `update_crash` | `MCUpdate` | is an update atomic, is a leftover reported, can the title always be started, does everything end, with every crash and failure outside `recover()`? |
| `update_recovery` | `MCUpdate` | the same title, if `recover()` may be interrupted: violation |
| `upload_sessions` | `MCUpload` | files whole, not overwritten, nothing left, and no part writing through another's descriptor, whatever is lost? |
| `upload_race` | `MCUpload` | whose bytes a file holds: violation |
| `server` | `MCServer` | writers counted and every request ended with connections lost and tries repeated; settings kept; batches and ranges whole |
| `scraper` | `MCScraper` | is a game in one worker's hands or none, is a job told as it is, and does it end? |
| `library` | `MCLibrary` | the library, a game's files, the sources, the helper and the tiles |
| `library_crash` | `MCLibrary` | do playlists follow their folders when a start is cut short: violation |
| `devices` | `MCDevices` | audio, microphone, controllers, share |
| `title` | `MCTitle` | the chain of programs, display, mode test, frame generation, cores, memory |
| `link` | `MCLink` | is every linked program counted, told of an install, and served by its own build; and is the folder of one release after two processes worked on it? |
| `link_live` | `MCLink` | does an install happen, does the link settle, is a linked program served? |

The properties of a sum are named for what they promise and made of the components'
own:

| Property | Says |
|---|---|
| `SettingsAreKept` | an option the page was told is saved reaches the core; an account signs in; a password is in no file after (`Settings`) |
| `FilesAreWhole` | a batch's file is whole or not there, no part is left, and what the page calls uploaded was written, up to the failures a batch remembers; each byte of a session counted once; a download in parts misses none |
| `NeverOver` | a request that may not replace writes over nothing, though two find the name free |
| `WritersCount`, `RequestsEnd` | a session's writers are the requests at it; each request ends (`Upload`) |
| `GamesAreHeld`, `JobIsTold`, `JobEnds` | a game is in one worker's hands or in none and never asked again for what is found; a job, in memory and in its file, is done when nothing is left of it; each job ends (`Scraper`) |
| `LibraryFollows` | no file takes another's place, save one that comes just as a start moves its folder; playlists and settings follow (`Library`) |
| `GamesAreShown` | a game is in the library once (an index and the track of its name; tracks of other names are excepted); a tile whose look changed is marked until the home screen has it, one deleted is in no list, and none is marked when the daemon is gone, save after what each of the three names: a call without an answer, a failed write, a kill, a request after the title closed or beside a leaving daemon |
| `SourcesAreWhole` | LaunchBox's marked index is every platform's of one edition; the helper's counts add up and it ends last; ScreenScraper's answers reach their game, and a sign-out stays one |
| `LimitKept` | no game takes a place over what the account that is signed in allows, though more were under way when it came; save while the numbers stored are another account's |
| `NothingLost` | a name the user gave and the mark of a media they uploaded stay; that media is the kind's only file, save for a scrape that had looked before the mark; backups are touched only by who was asked to |
| `LibraryEnds` | the helper's job ends, marked tiles are finished, a resumed job settles every game |
| `FramesConserved`, `OneOutputAtATime`, `RingIsAQueue` | the audio driver's |
| `InputIsKept` | the rumble asked for last is felt, no motion is lost to its cap, a port is its user's |
| `ReadsKeepOrder` | the microphone's samples in order, none from before a stop or a mute; a share's bytes as a local file's, staged whole or not, no context leaked |
| `DevicesReturn` | every blocked call of the drivers returns |
| `GamesRunOnce`, `AnsweredOnce` | a game asked for runs once, the last asked, and comes back once to the frontend that asked |
| `TestsAreArmed` | each test runs only when armed, restarts no more than armed for, and passes only what it presented |
| `ScreenIsWhole` | no buffer drawn into while it is shown, save after a failed wait for the vblank; the newest picture shown; generated pictures made of the frames they lie between, all shown, in order, at the rate; the floor judges by what it measured; what is recorded is what was shown |
| `MemoryIsTheirs` | a core's thread runs only mapped code (save in two cases of destructors, section 4), its count is exact, its creation gets its own answer; an image's code is its file's and a refused one leaves nothing; a block goes back where it came from and keeps what it held |
| `NothingHangs` | a launch ends in a program; a close and a thread's creation return |
| `LinkIsKept`, `LinkedToItsBuild`, `LinkLives` | the link's |
| `OneRelease` | the files every release replaces are of one release at rest, however the two updaters start, stop, are killed and follow one another, save once they came together at one update (`met`) |

### Bounds

| Run | Instance | Why it is enough |
|---|---|---|
| `update_*` | 3 files of which one is fixed, 3 versions (2 in `update_recovery`) | a plan has up to two files to move before `eboot.bin`, some of them new; a second update over what the first left |
| `upload_sessions` | two uploads of one name, two parts, three lanes | a part, a commit and a cancel at once; parts and lanes are symmetric |
| `upload_race` | two names, one part, two tries | the descriptor's number reused by the other name |
| `server` (with the settings' sizes in `MCServer.cfg`) | two uploads of one name, one part, a limit of one session, two tries; two starts, two edits, two accounts, a crash at each stage; a batch and a file with names in common, a block of 2 bytes, pieces of up to 5, one fault, one failed and one skipped file remembered; a file of 6 bytes, 3-bit integers | a try beside the one it repeats; a session opened as another expires; records that end, begin and have their header cut inside one piece; more files skipped, and failed, than are remembered; ranges that touch, contain, repeat and wrap |
| `scraper` | two jobs, three games, two workers, two kinds (one of them the details), a source of each sort (two cover a single game), an uploaded media, five scenarios | a quota that ends with both games held; a cancel for another job; a crash between replacing saves; a database that cannot be had |
| `library*` | three systems, eight files, four starting layouts; two copies, one an image that names the other, and three requests; two platforms and editions, a worker and a search; two helper threads, `Busy` 2, two games of two kinds, one game stored already; two accounts of limits 2 and 1; two tiles, six plans of what is asked and what fails | a merge onto a folder that is there, and a file that comes in the middle of it; two copies of one name; an index half renamed; a lease outlived by one thread while the other works; a limit that shrinks while its places are held |
| `devices` (the sizes are in `MCDevices.cfg`) | rings of two grains of two; writes of up to three, seven frames; three users on two ports; a file of 4 bytes in answers of 2, three drops | the ring wraps at an odd place and is filled again; a user with no port; a drop at each step of a read and after the mend |
| `title` (the components' sizes are in `MCTitle.cfg`) | three builds, three programs armed, four plans (two asks with a fault, a kill and an update; a tile; an armed restart with a fault and a kill; an ask beside an armed restart); four pictures; two modes; two core files, two threads, one entry of the loader's list; images of six words; one place of each allocator and a slab of two slots, four calls; three frames at three rates; four games for the floor; five presents | a second ask before the first is answered; both buffers more than once; a close beside a thread that starts and one that ends; an address given again; rates below, above and not dividing the screen's |
| `link` | two daemons, three connections, three launches, one late answer, one crash, one update; for the two updaters two files, both always replaced, and the release there is and the next | an old and a new daemon; one connection read, one closed and unread, one new; the new release half in place when either process is killed, and put back or installed again by the other (`update_crash` has three files and versions) |
| `link_live` | two connections and launches, a transfer, a build copied over the folder, a crash | the daemon of either build may be the one that must stop |

Names that begin with `Max`, and `Budget`, `Bounds`, `Plans`, `Scenarios`, `Requests`
and `Tries`, bound what is unbounded or large in the code (`Tries` is `PART_TRIES`, 3
there; `Limit` is `Sessions::limit`, 16 there; `Overs`, `FirstWait`, `LongestWait`,
`Soon` and `LongestGap` of `FrameGen` are the governor's and the gap's 8, 600, 20000,
3000 and 8, cut to 1 or 2 so that each is reached). Deadlock is checked in the
`update` runs. Elsewhere the system may stop: a page whose uploads are over sends
nothing more, a closed title and a stopped daemon do nothing, a bound is spent. `link`
has no `Replace`: that a linked program's daemon is of its build is true of the
WebUI's own updates only, since nothing tells a daemon of a copy. `LaunchBox` runs with
`CanFail = FALSE`: the promise it separates is in section 4.

### Fairness

The threads of a process run on, so each next step of `initialize()`, `install()`, the
worker, a request, a driver call, a scraper's worker, a helper's thread, a core's close
and end, and an `eboot.bin` that has not handed over is weakly fair. No user is obliged
to ask for anything, and no crash and no failure is fair. Beyond the code's own
threads:

- AudioOut and AudioIn return, which is what paces the drivers; a core's thread ends.
- The shell carries out or drops a LoadExec it accepted; the console shows a frontend
  that was started.
- `Link`: a program told to close the title closes it, a transfer ends, the loader
  runs what it accepted. The daemon's loop is strongly fair: it turns every 250 ms and
  does all that is due in the turn, so a state that lasts for seconds each time it
  comes back is not missed each time.
- `ScraperPc`: a lease runs out, and the user keeps a helper running: the job's
  ending is claimed only while the helper is on.
- `Screenscraper`: a paused job is resumed again and again, as a user who wants it to
  end does. The service's refusals are bounded, or it need never end.
- `Forwarders`: ShadowMountPlus answers again. The claim is of behaviors in which a daemon
  serves again and again and is gone again and again, as when a user goes on starting and
  closing the title: then every mark is dealt with in the end. A daemon serves for a bounded
  time after the title closes, so it is not claimed of one closing.

## 4. What the runs found

`PROJECT.json` has every finding with the lines it quotes. Three have a run of their
own, which TLC ends in a counterexample:

1. **`recover()` is not idempotent** (`update_recovery`). A file put back has no
   backup any more; if the journal is still there, the next `recover()` finds neither
   a backup nor a staged file, takes the file for a new one and unlinks it:
   `eboot.bin` is the last of the plan, so the first to go.
2. **A commit closes a descriptor a part may hold** (`upload_race`). The commit's
   check and its close are two critical sections, and only `discard()` sets `closing`.
3. **A start cut short leaves playlists behind** (`library_crash`). The folders are
   renamed first and the playlists rewritten after all of them; the next start finds
   nothing to rename.

The others were met while modelling. Where a definition below states the promise, it
is in the module beside the properties, is violated by it when put in a configuration,
and is in no run; the property that a run checks excepts exactly that case.

| What | Shown by |
|---|---|
| a failed part's writer outlives its answer, so the commit after its retry is refused | `Upload`: the failed part's writer is left to `PartFree` |
| a start undoes the other process's install, before it tries the port | `Updaters`' `AlwaysOneRelease` |
| RetroArch decides once who serves | `Link`: no step of RetroArch after `Decide` tries the port |
| a batch remembers 64 failed files, and the page calls the next ones uploaded | `Batch`'s `AlwaysToldAsItWas` |
| a batch's file begins with the bytes a failed flush left; a failed single upload is answered before its hidden file goes; an end of 2^64 - 1 wraps | `Batch`'s `OwnFaultsOnly`; `NoPartLeft` excepts it; `Ranges`' `RangesAreInside` |
| a new account loses its password to a sign-in of the one before; two processes save over each other; the password is gone before its token is saved | `Settings`' `AccountAlwaysKept`; `EditKept` and `PasswordForgotten` once `met`; a late crash |
| a restarted job may wait for a choice among none | `Scraper`'s `WaitsWithChoices` |
| an outlived lease gives two of a helper's threads one part file | `ScraperPc`'s `OnePart` |
| workers insert into a map they only read; a platform left out of an index that is marked whole | `LaunchBox`'s `ReadOnceAlone`, `MarkedIsBuilt` with `CanFail` |
| an answer's quota goes to the account that is signed in when it arrives | `Screenscraper`'s `QuotaIsTheirs` |
| a scrape replaces the media a user uploaded meanwhile; two uploads of one media in different types remove each other's | `GameStore`'s `UserKeeps`, `UploadStays` |
| a file that comes as a start merges folders is written over; a track not named like its index is listed beside it | `Library`'s `NeverOverwritten`, `TracksAreDropped` |
| ScummVM's data is looked for depth first | `Library`'s `IsScummGame` |
| a mark made while the daemon no longer looks waits for a program of the title; a look is not marked when ShadowMountPlus is silent, or the mark cannot be written | `Forwarders`' `EveryTileSettles`, `EveryLookFollows` |
| another user gets port 0; a leaver is not told after a reset | `Input`'s `StarterIsFirst`, `GoneIsTold` |
| a short read in the middle of a file | `Smb`'s `ShortIsTheEnd` |
| a frame with nothing new shows the picture before last; an opening that failed forgets what it took | `Display`'s `PictureStays`, `NothingForgotten` |
| a stale result opens the next session on its game; a frontend whose LoadExec fails sleeps on | `Title`'s `ResultIsFresh`, `HandoverEnds` |
| key destructors unmapped under a thread, in two ways; a core kept mapped for another's thread | `Cores`' `KeysStayMapped`, `DestructorsStayMapped`, `KeptForItsThreads` |
| a large calloc is not zeroed | `Memory`'s `CallocIsZeroed` |
| a group cut by its next frame; groups far apart that add up to a step back to the dearer method | `FrameGen`: `MadeOfItsFrames` holds of a cut group only through `cut`; `Govern` |
| a dump's last frame without pictures; copies lost between windows; a size that changes | `FrameRecords`' `Generate`, `PicturesAreKept`, `DumpedAreTheirs` |

## 5. The proofs

Each theorem is of the module's `Spec`, for every value of its constants that the named
assumption admits; TLC checked each inductive invariant on the run's instance before it was
proved. Those named in section 3 are the properties of the runs; a theorem that states one
cites it.

`Update_proofs`, for any number of files and of releases:

- `TypeCorrect`, the types. The loops' next path is the least or the greatest of the
  paths left; that it is one of them rests on the well-foundedness of `<` on Nat.
- `WorkerIsAlone` and `LeftoverIsReported` from `Kept`: a working worker implies a
  state `download()` refuses in, no journal and a thread outside `install()`;
  `install()` implies the state `installing`.
- `Atomicity` (the updater implements `AtomicUpdate`) and `TitleAlwaysStarts`, under
  `~InterruptRecovery`. The step lemma needs `AtomicInv`, what each phase keeps for
  the next: before the first rename everything planned is staged and nothing is
  backed up; during the renames the paths done are in place and the others still
  staged; an undo has only journal paths left and knows whether it could read it.
  `TitleStarts` then follows, because a switch leaves no file of `Always` absent.

`Upload_proofs`, for any number of uploads, parts and requests:

- `Sessions`: the inductive invariant of the sessions, whatever connections break. A
  session is in the map, or one request holds it, or neither; its descriptor is open on
  its file and on no other's, except between the two last steps of a commit, where it
  names a number that is free or another's; a temporary file belongs to a session of the
  map, or to a request that is ending it.
- `SessionsEndCorrect`, `NamesAreKept` and `WritersAreCounted` follow from it.
- `PartsLand`, `WritersKeepTheirFile`, `FilesAreWhole` and `BytesAreOwn` assume
  `OnceEach`: no connection breaks, or a part whose connection broke is not sent again.
  That is what separates them from `upload_race` (section 4): a part that is sent while its
  first try is still being written may see its session committed, and the descriptor's number
  given to another, and with `Tries > 1` the code allows it. The invariant adds that no two
  requests work on one part, and that a commit is, from its check on, alone with its
  session's parts, all of them covered.

`Link_proofs`, for any daemons, connections and budget:

- `LinkKept`, made of `Counts` and `Hears`. `Inv` says what a program may have to read
  before it is linked: nothing until a daemon counts it, then its welcome first. A daemon
  counts a program only while it is up, and once it has asked its programs to close, each
  one it counts knows, or has the message to read.
- `ServedByItsBuild`, when nobody copies another build over the folder
  (`Budget["replace"] = 0`): a daemon that is up is of the folder's build, or knows that it
  is to stop; and a program is counted only by one of the folder's build.
- `FolderIsOfOneRelease`, which is `OneRelease` of `MCLink`'s sum, for any number of files
  and of releases. Each process's steps are `Update`'s, so `Update_proofs` is instantiated
  for each and its step lemmas serve as they are; what is new is what a step of one does to
  what the other relies on. The invariant is claimed until the two meet (`TwoInv` under
  `~twoMet`): nothing keeps them from meeting, and a step that sets `met` owes no more.
  Before that at most one of them holds the folder's update (`DaemonHolds`, `TitleHolds`: it
  is at work, about to be, or downloads). `FoundIs` covers the window this composition opens,
  that `initialize()` goes by a journal it looked for before it tried the port: one that was
  found is still there. `Update_proofs`' `AsideKeeps` says that a process that is aside loses
  nothing by the other's steps, `SeparateStep` and `StepTouches` what such a step can change,
  and `OneTreeStep` that the folder, as far as a journal is undone, stays of one release,
  since each plan has every file of `Always`.

`Devices_proofs`, first the audio driver, for any sizes of the ring, the grain and a write:

- `TypeCorrect`, `Conserved` (each accepted frame is played, discarded, queued or in the
  worker's block) and `OnePort` (no drain or close overlaps the worker's output), from
  `IInv`: the worker outputs outside the mutex only a block it has taken, and a stop or a
  drain goes on only once the port is no longer active.
- `RingRefines`: the ring implements `AudioQueue`. Its lemmas are the arithmetic of an index
  that wraps (`Wraps`, `SlotsDiffer`, `SlotsShift`), so that a write past the ring's end is
  an append and a read from its tail a removal from the queue's head.

The rest of `Devices_proofs` is of `MCDevices`' sum (`DevicesAssumption` says what its constants
are), with an inductive invariant for each device, claimed when `part` names it:

- `ReadsInOrder`, which is `ReadsKeepOrder`, from two invariants:
  - `MicInv`, the microphone, for any sizes of the ring and the grain. `Flies` is about the
    grain the port has given and the ring does not have yet: it is the newest there is, and is
    of this session, because a stopped microphone has a grain on its way only while its caller
    waits for it, so none is on its way at a start. `Rings` says the ring is a run of
    consecutive samples that ends with the newest, and holds no speech once the mute is met;
    `Copies` that a read under way has only what comes before the ring. `GrainStored` is the
    arithmetic of a grain laid over the ring's end, which may drop the oldest samples and wrap
    inside the grain (`MicPlaces`, `MicShifts`); `CopyOrders` that of a read that wraps.
  - `ShareInv`, the share, for any file, block and reads. A file's handle, when it has one, is
    where its reader is (`FileInv`), so that a mended connection goes on from there; what a
    read has copied is the file from its cursor (`ReadInv`), and a staged copy the file up to
    the reader (`CopyInv`). Its lemmas are about parts of a file that follow each other
    (`PartsJoin`).
- `InputSafe`, which is `InputIsKept`, for any users, ports, levels and clamp. `PadInv` says
  that a thread that falls back to the motors holds the controller's lock and has read the
  level set last (`Feels`); what a stylus was given and is still owed is what the finger moved,
  unless the clamp cut it (`Moves`); a scan that has been through a port left nobody on it who
  signed out (`Seats`); and `told` is the controllers announced, unless a driver is being
  closed or its binds were reset (`Tells`).

`Scraper_proofs`, for any jobs, games, workers, kinds and sources:

- `ScraperSafe`: the inductive invariant. It says of each worker what it has in hand (a game
  of its job that carries its number, and of which it asks for nothing the job has), of each
  game who has it (a working one has a worker, and only it), and of each job's file that it
  could be read back now: no game in it is in hand or mid-way, its state and pass are the
  memory's. The file's part is needed because a crash makes the file the job.
- `HeldGames` and `ToldJobs`, the two invariants of the `scraper` run, follow.

`Library_proofs`, for any systems, files, names, playlists and plans:

- `LibrarySafe`: the inductive invariant. While a folder is merged no name is in both
  folders and those that moved are in the new one alone, also on their way back, so
  nothing is overwritten. No old folder is left of a system this start renamed; so an
  entry still to be rewritten names a file that is there or one that went with its
  folder, and rewriting it finds that file. A core already gone through has its settings
  for the new names.
- `LibraryIsKept`: `LibraryFollows`. Its first half holds whatever is cut short or fails,
  unless a file came as its folder was moved (`late`), its second under `clean`, which
  `library_crash` shows to be needed; a file that comes late takes nothing from the second. The lemmas are about
  paths: a path is one folder's and one name's, and renaming its first part leaves the
  rest.

`Title_proofs`, for any builds, plans, numbers of games and programs armed:

- `TitleSafe`: the inductive invariant. It says where each program can be and what the
  shell can have of it; that a request, its run and its result follow one another and are of the
  last game asked for, a request left by a killed title being found by no program in game
  mode; that EmulationStation has taken the result before its user can ask again; and that
  each game asked for has come back, was lost to a kill, or is on its way.
- `GamesAreRunOnce`, `AnswersComeOnce`, and `TestsEnd`, the relaunch test's part of
  `TestsAreArmed`.

The rest of `Title_proofs` is of `MCTitle`'s sum, whose components have constants of their own
(`DispAssumption`, `TestAssumption`, `CoresAssumption`, `ImageAssumption`,
`MemoryAssumption` say which). Each behavior is one component's, so each component has an
inductive invariant that is claimed only when `part` names it:

- `NeverTorn`, the display's part of `ScreenIsWhole`, for any number of pictures, frames and
  refused calls. `DispInv` says that a submitted flip is of the buffer the driver draws into,
  which `present()` leaves alone until the vblank; that this buffer is not on the screen,
  unless a wait failed and the display has not taken the flip since (`early`);
  and that between a frame's drawing and its flip it holds what the frame had to offer. A
  refused flip keeps all three, since the same buffer is drawn into again.
- `TestsKeepToTheirArming`, which is `TestsAreArmed` with the display modes' half: `TestInv`
  follows the test from the file that arms it to the last mode. What is made so far, shown so
  far and recorded so far are the same prefix of the list of modes; the first that fails ends
  the list; so a test that passed presented every frame of every mode and kept nothing.
- `MemoryStaysTheirs`, which is `MemoryIsTheirs`, from three invariants:
  - `CoresInv`, the cores: one thread's creation is asked for at a time and its answer is
    kept for it; every thread that may run code is of an image that is
    mapped; and the count is the number of threads between their counting
    and their uncounting (`LiveCounts`), which is why a close may wait on it.
  - `ImageInv`, a core's file: what each step of the loading has checked stays true of what
    the next ones use, the segments mapped, the code made of them, the callbacks and the
    relocations inside them; a refusal gives back what is held.
  - `MemInv`, the heap: a span, a mapping, a slab's slot and a native block belong to at most
    one block or one call under way (`SpansTheirs`, `Held`); a pointer's home is the allocator
    that gave it (`Known`); a call between two of its steps knows the size and the bytes of
    what it moves (`CallsOK`). One lemma says what any step may touch (`CallStep`), so that two
    threads' calls need not be taken in pairs.

`Server_proofs`, for any accounts, pages, and bounds:

- `SettingsKept`, which is `SettingsAreKept`. `SetInv` relates the files to what the server
  and the title each hold of them between a read and a write. What a request will write is
  what it read but for its edit (`RequestHolds`). The option being applied is the pending one,
  and the core's own file has it before it is pending no more (`OptionHolds`). The files
  together sign in with the account last saved, and while RetroArch runs so do its memory and
  `webui.cfg`, which is what its own save leaves (`AccountHolds`). Once it has signed in its
  memory has no password, nor has each file it has been through (`PasswordHolds`). Each part
  excepts what section 4 says is lost: `met`, `disturbed`.

Only model-checked:

- all liveness (fairness and ENABLED are outside the prover's reach);
- of the runs' invariants: `SourcesAreWhole` and `GamesAreShown` (LaunchBox's indexes, the
  helper, ScreenScraper's answers, the library's scan and the tiles), `FilesAreWhole` (the
  batches, what the page is told of them, and the ranges); of the actions' properties `NeverOver`'s half that is `Batch`'s,
  `NothingLost`, `LimitKept`, and what `ScreenIsWhole` says of the frame generation;
- what depends on the data an instance chooses: that a game is shown once (`ShownOnce`) is
  true of names, kinds and stems as files have them, which the constants do not say; the
  picture's times in `FrameGen` and the byte ranges of `Ranges` are arithmetic that TLC does on
  their instances.

## 6. Plan

1. Proofs: `GameStore`'s and `Screenscraper`'s action properties; `Batch`'s files.
2. An abstract job for `Scraper` (each game asked for is settled once) and the
   refinement that shows the workers implement it.
3. The part files of `Upload` with ranges that overlap, as `Ranges` has them.

## 7. Not modelled

- **Scraper**: libretro's thumbnails server as a source of its own, and
  `src/scraper_http.cpp`: the branch for the console's own HTTP calls is compiled into
  nothing, and the other is libcurl's; calls that fail and answers that are late are
  in the models.
- **Transfers**: `Sessions::clear`, with which a server that stops discards every session,
  after its last request.
- **Server**: listings, status pages, static files and the icons of tiles, which only
  read.
- **Page**: all but the lanes of an upload and the wait for an update; it is
  presentation.
- **Title start-up**: the log, the probes and the environment, which nothing waits
  for.
- **Input**: the mapping of buttons and sticks, a table.
- **Frame generation**: the network's passes (a submodule and shaders), the menu's
  entries and the options' file.
- **Picker, EmulationStation**: drawing and the reading of their lists.
- **Platform shims** adapt calls and keep no state of their own; **diagnostics** read
  and log; **vendored** and generated code, and the tools that build and sign the
  title, are not the program.

# Verification of play2sdg

TLA+ models of play2sdg, the Play application that serves a music player over
Cassandra, with TLC configurations that check them on small instances and TLAPS
proofs for all instances. File names without a directory are files of this
directory; `app/...` and `public/...` are files of the repository.

## 1. The system

play2sdg is a Play 2.1 web application (`app/`), a page for the browser
(`public/app/`), Cassandra behind it (keyspace `play_cassandra`), external Spark
and SDG jobs that write recommendations and statistics, and scripts that run
benchmarks against all of it (`benchmark/`).

Play serves each request on a thread of a pool. A handler is a straight line of
synchronous calls on the Cassandra driver. Nothing excludes two handlers from
interleaving between calls: no lock, no conditional write (`IF`), no transaction.
All state shared by requests is in Cassandra or in static fields of
`controllers.Application`.

| Component | State | Operations | Hard behaviour | What makes it correct |
|---|---|---|---|---|
| Playlist service (`Application`, `PlayListController`, `CassandraDxQueryController`) | rows of table `playlists`; counter `playlists`; the copy of a row that a running request holds | `rate`, `createPlayList`, `deletePlayListSong`, `add`, `rename`, `delete` | read a row, change a copy, save all of it; UPDATE that inserts; save and increment as two calls; exceptions between calls | no song is lost, brought back or multiplied without an overlap that explains it; lists keep their owner; the counter covers the lists; each request is answered |
| User sessions (`Login`, `Secured`, `Application`) | cookie per browser; static `currentUserMail`; what a page shows | login form, `index`, `getNextPage`, `logout`, `getUserName`, `getPlaylists`, restart | one static field for all sessions; a page is three answers; given-up requests still run; restart loses the field and keeps the cookies | a page shows the name and the lists of its own user; redirects end |
| Counters (`CounterAccessorI`, `Counter`) | rows of table `counters` | increment, decrement, read | drift from what is counted | the counter is never behind the lists |
| Track catalogue (`Track`, `TrackAccessorI`) | rows of table `tracks`, loaded from outside | first page, next page, find by id | empty table | read-only: no state of its own to keep |
| Browser page (`public/app/main`) | open playlist of every visit, list elements, answers awaited | open/close a list, rate, delete a song, leave the view and return, success handlers | answers that arrive after the open list changed; handlers that pile up; a list read anew while a request is under way | the page shows the songs that are stored |
| Media player (`jquery.jplayer.js`) | one record per instance: open gate, active solution, media, the flags waiting for play and for load, one delayed command; the audio and video elements with their queued events; the Flash movie | `setMedia`, `clearMedia`, `load`, `play`, `pause`, `stop`, `playHead`, `destroy`, the listeners of the elements, the events of the movie | events come later than the calls that cause them; a delayed command fires when another media is set; elements and solutions are switched while they play | only what is set is heard, behind the open gate; at most one delayed command, for that media, and not for ever; the buttons agree with the element |
| Playlist of the player (`ttw-music-player.js`) | current track, marked row, ratings, stars, cover and its fades | titles, next, previous, "View More", the play and ended handlers, ratings | an ended event queued while the user chooses; two tracks with one URL; fades that queue while images load in any order; half stars rounded in both directions | media, mark and current track agree; only an end advances; rows, stars and list agree; the cover is that of the track |
| Recommendations and job statistics (`Application`, `public/app/statistics`, `public/app/findmusic`) | rows of `recommendations` and `statseries`; what the two views draw | `getUserRecommendations`, `getJobStats`, `getTimeseriesStats`, the pills, the gauges | nothing reported yet; two answers of different age; a pill clicked before the timeout that draws | heading, chart, pill and gauges agree; the chart comes |
| Cluster and schema (`Global`, `ClusterManager`, `SchemaManager`) | driver session, static schema manager, tables created | `onStart`, `onStop`, `createSchema`, `dropSchema` | a closed session kept in a static; `createSchema` and `dropSchema` have no caller | the session is open while requests run |
| Init service (`benchmark/lxc_service_scripts`) | PID file, processes | start, stop, uninstall | crash leaves a PID file; two starts | at most one instance, which stop stops |
| Benchmark orchestration (`benchmark/scripts`) | processes on the workers, result files | the phases of a round | a phase fails, the next one runs | each round starts from a clean machine |
| Local collaborative filtering, legacy `main.coffee`, bundled libraries, templates | none that lives | | | not modelled: commented out, loaded by no view, third-party, stateless |

Interaction: the browser's page calls the handlers over HTTP (`conf/routes`); the
handlers share the database and the static field; the page decides what it shows
from the answers, in the order they arrive. The list ids a page sends come from
`getPlaylists`, which answers for the static `currentUserMail`: this is why, in
the playlist model, any user may name any list. On the page, `ttwMusicPlayer` calls
jPlayer's methods from its handlers, and jPlayer triggers its events from the
listeners of the media elements, within one task of the event loop.

`PROJECT.json` lists the components with their status and the hazards with the
line where each bites. Where the code itself does what the hazard says and nothing
in the repository promises otherwise, no property forbids it; a note says which
property marks the limit of the damage.

## 2. Modules

| Module | Models |
|---|---|
| `PlayListRows` | the rows of table `playlists`: constructor, `addRatingSong`, `setFolder`, `tracks.remove`, and the UPDATE that inserts what is not there |
| `PlayListService` | the six handlers; one step per driver call |
| `PlayListHistory` | the service observed by history variables, for what a client may conclude from an answer |
| `PlayListVersions` | abstract specification: a store without isolation |
| `UserSession` | cookies, the static field, the page and its requests |
| `BrowserPage` | the list view: its closures, open lists, dialog, requests and success handlers, with the server's rows behind it |
| `MediaElement` | the browser's audio or video element: what its methods do, what it does by itself, its queue of events |
| `JPlayerMethods` | each method and each listener of a jPlayer instance with HTML solution, as an operator from the instance to the instance it leaves |
| `JPlayer` | an instance between a page that calls its methods and the elements of a browser |
| `JPlayerFormats` | `_init` and the choice of `setMedia`: which solution and format a media gets |
| `JPlayerSolutions` | an instance that switches between HTML audio, HTML video and Flash |
| `MusicPlayer` | `playlistMgr` of `ttwMusicPlayer`: a page of `JPlayer` that calls it from within its events |
| `PlayerDisplay` | what `ttwMusicPlayer` shows: ratings, cover, the two events that start it |
| `JobStatistics` | the rows of jobs, the four requests about them and the two views |
| `MCPlayListService`, `MCPlayListHistory`, `MCUserSession`, `MCBrowserPage` | symmetry sets for TLC |
| `MCJPlayer`, `MCJPlayerSolutions`, `MCMusicPlayer`, `MCPlayerDisplay`, `MCJobStatistics` | values of the constants for TLC |
| `PlayListHistoryProofs` (of the service too), `UserSessionProofs`, `BrowserPageProofs`, `JPlayerProofs`, `MusicPlayerProofs`, `JPlayerSolutionsProofs`, `PlayerDisplayProofs`, `JobStatisticsProofs` | theorems and proofs |

What builds on what: `PlayListHistory` extends `PlayListService`, which extends
`PlayListRows`, and instantiates `PlayListVersions` with the history as refinement
mapping; `MusicPlayer` extends `JPlayer`, which extends `JPlayerMethods`, which extends
`MediaElement`; `JPlayerSolutions` extends `JPlayerFormats`. The modules of proofs
follow: `MusicPlayerProofs` extends `JPlayerProofs` and rests on its lemmas.

Operators named as a *mutation* in their comment are not part of a
specification: each is the definition after it with one plausible bug, kept so
that every property can be seen to fail for it.

### PlayListService and the code

`req[w]` is what a thread is doing: the operation, its arguments, the call it is
about to make (`pc`) and the row it read (`snap`), which in the code is a local
variable. `playlists` is the table (a row or `Null` for each id), `counter` the
row "playlists" of table `counters`.

| Handler | Steps |
|---|---|
| `createPlayList` | `FindUser`, `Insert`, `Increment`, `Render` |
| `add` | `FindUser`, `Insert`, `Increment` |
| `rate` | `FindTrack`, `FindList`, `Save`, `Increment` |
| `rename` | `Authorize`, `FindList`, `Save`, `Increment` (`persist` counts at each save) |
| `delete` | `Authorize`, `FindList`, `Remove` |
| `deletePlayListSong` | `FindList`, `Update`, `Render` |

A call may throw before it has an effect (`Abort`) or after the database applied
it (`Wrote`, as a timed-out write does). No handler catches: the answer is 500.

Points of the code that are easy to miss and are in the model:

* Cassandra stores no empty list. A row that only the UPDATE of
  `deleteUserPlayListSong` wrote exists while its track list is not empty, and has
  no owner (`Retracked`, field `marker`).
* `tracks.remove(song)` removes the first occurrence only.
* `rate` and `deletePlayListSong` do not ask whose list it is.
* `isMemberOf` compares UUID *objects*. The constant `IdComparison` says how:
  `"reference"` is the code, where the answer is always "no member"; `"value"` is
  what the tests of the repository expect. The runs that are about what `rename`
  and `delete` do to the table use `"value"`, since under `"reference"` the code
  behind the check is never reached; the violation runs `rename` and `ratings` use
  `"reference"`. The theorems hold for both.

Assumed of the environment: writes to one row are applied one after the other (one
node, last write wins in the order of the steps); `UUID.randomUUID` gives fresh
ids; the catalogue is not empty and the row "tracks" of `counters` is there, so
that the index page renders; what an answer shows apart from the lists (tracks,
total) is left out.

### UserSession and the code

`page[b]` is what a browser shows: the user the page was rendered for, and the
name and the owner of the lists that its two scripts put into it. A request on a
connection is `wanted` until its browser leaves the page. `Index` is two steps,
the write of the static field and the rest of the handler. `getUserName` and
`getPlaylists` read the static field and answer in one step. A null field makes
both throw. Passwords are abstracted to whether the form holds the one of the
row (`right`); table `users` is constant, since no handler writes it.

The link "Next Page" is in the body of `index.scala.html`, which `main.scala.html`
never puts out; `OpenNext` is a user who types the address. It stands for
`createPlayList` and `addSpotifySongsbyArtist` too, which also answer with that page
and write no static field. `Reopen` is a return to `#/main` inside the page, where a
new `MainCtrl` asks for the lists again.

`loggedIn` and `overwritten` are observed only: no step reads them.

### BrowserPage and the code

`main.html` is a template with a script; Angular shows it at every visit of `#/main`
and jQuery then runs the script again. Its variables are one closure per visit
(`opens[v]` is `_openplaylist` of visit `v`), but its handlers for `.playlistopen`,
`.addtoplaylist` and `.delete` are bound to the document and never unbound. So a
click runs the handlers of all visits: `Toggle` changes every `opens[v]`, and `Rate`
sends one request for each closure with an open list. Only `.delete_song_ok` is
bound to an element of the view, so `Confirm` sends one request, from the variables
of the last closure (`chosen`).

`items` are the `<li>` elements. One that answers a rating names the list that was
rated (`list`) and is under the list that was open in its closure when the answer
came (`ul`). `ShowLists` renders what `GET /playlists` answered; a list that holds a
title twice is rendered without elements, since `ng-repeat` has no `track by`.
The server reads a row and writes it back in two steps. `disturbed` is observed only.
Left out: the order of songs, the loading of the player, other writers of the
user's lists, deleted lists (no element of the page deletes one).

### JPlayer and the code

`w` is the instance, a record. `gate`, `node` (`htmlElement.media`), `srcSet`,
`media`, `waitForPlay`, `waitForLoad` and `paused` are the fields of `this.status`,
`this.html` and `this.htmlElement` of those names; `el` holds the two elements.
`timers` are the timeouts set and not yet fired, `held` says that
`internal.htmlDlyCmdId` still holds the last of them; each remembers the media it
was given for, which no step reads.

A step is one task of the event loop: a call with all it does, the next event of an
element with its listener, a timeout, or something the browser does by itself. Events
are queued by the elements and run later; a listener ignores its event when its gate
is closed or the load is still awaited (`Heard`), as `_addHtmlEventListeners` does.
Loading another resource discards the events that have not run, which is what the
HTML standard says of media elements.

Old browsers throw when a position is set before the metadata are there, and the code
catches this to try again; newer ones do not throw. `strict` says which it is, and
each call may throw in a strict one. Times are `"none"` (not a number), `"start"` and
`"later"`; positions and durations are left out.

### JPlayerFormats, JPlayerSolutions and the code

Options are the names left when the strings `supplied` and `solution` are split; a
browser is the set of formats its elements can play and whether it has Flash.
`Desired`, `Support` and `Playable` are the loops of `_init` and `setMedia`. In
`JPlayerSolutions` an element or the movie plays or does not; how an element comes to
play is the module `JPlayer`. The movie `Jplayer.swf` is not source: it is known by
the calls it is sent and the events it sends, and it starts anew when a browser hides
and shows it, for which `jPlayerFlashEvent` has a branch (`FlashReady`). Of times only
this is kept: a strict browser may throw out of a `play(time)`, after the element has
begun to play and before `waitForPlay` is cleared (`HtmlPlay`); the timeout that tries
again is one more `CallPlay`. Seeks, and `pause` with a time, are in `JPlayer`.

### MusicPlayer, PlayerDisplay and the code

In `MusicPlayer` the handlers of `playlistMgr` run in the listener that triggers the
event, so `Hear` is the listener of `JPlayer` and the handler in one step, and `Advance`
is `playlistAdvance` with the `setMedia` and the `play` that it calls. Of the calls of
`JPlayer` a page with a playlist makes these few; what timeouts and elements do by
themselves are actions of `JPlayer` (`PlayerStep`). `PlayerDisplay`
takes the changes of track as given. A rating counts half stars: the ten bars of a row
show it, the five stars round it. `fades` is jQuery's queue of animations of the cover;
what `setCover` does when a fade-out ends looks at the track that is current then.

### JobStatistics and the code

Rows are only appended, so an answer is how many rows of each job it has. `getJobStats`
and `getTimeseriesStats` read all rows, whatever job is named; `First` is the job of
`rows[0]`. `Arrive` is a success handler, `Collected` says that `$q.all` is complete,
`due` is the timeout that draws the gauges after the last panel was repeated.

## 3. Runs

| Run | Instance | What it shows |
|---|---|---|
| `answers` | 2 threads, 2 users of whom 1 has a row, 1 song, 1 list, 4 requests, 1 exception | `TypeOK`, `CounterCoversLists`; under fairness `EveryRequestIsAnswered` |
| `lost_updates` | 2 threads, 2 users, 2 songs, 1 list, 4 requests, 1 exception | `OneOwnerForever`, `CreateListsOwn`, `ListsKeepOwner`, `SerialRequestsLoseNothing`, `DeletedStaysDeleted`, `CopiesWereRated`, and `ImplementsVersions`: the service implements `PlayListVersions` |
| `pages` | 2 browsers, 2 connections, 2 users, 2 navigations, 1 restart | `TypeOK`, `ShownUsersLoggedIn`, `UndisturbedPageIsOwn`; under fairness `RedirectsEnd` |
| `list_view` | 2 lists, 1 song, lists that hold it at most once at the beginning, 2 connections, 6 clicks, 2 visits, 1 error | `TypeOK`, `PageShowsStore` |
| `jplayer` | an audio media, a video media and one that no element plays; 3 calls; browsers that throw and browsers that do not, with and without preloading | `TypeOK`, `PlaysWhatIsSet`, `OneTimer`, `DelayedCommandIsCurrent`, `ControlsAgree`; under fairness `DelayedCommandsFinish` |
| `jplayer_solutions` | 4 formats, 16 browsers (with Flash or not, strict or not), 24 options, 5 media, any number of calls | `TypeOK`, `OnlyTheGateSounds`, `FullMediaIsAccepted`, `SameFormat`, `FlashResumes` |
| `music_player` | 3 tracks of which two have one URL, one shown before "View More", 3 clicks | `PlaylistTypeOK`, `MediaIsCurrent`, `MarkedIsPlaying`, `CurrentIsVisible`, `AdvancesAtEnd`; under fairness `TracksFollow` |
| `player_display` | 4 tracks, one without a cover and one whose cover is broken, 4 clicks, ratings of 5 and 6 half stars | `TypeOK`, `RatingsAgree`, `CoverIsCurrent`; under fairness `CoverComes` |
| `statistics` | 2 jobs with up to 2 rows each, 2 visits, 2 clicks, 1 failure | `TypeOK`, `DrawnAgrees`; under fairness `ChartComes` |
| `rename` (violation) | 1 user, 1 list, 2 requests | `OwnersAreNotForbidden` fails: `p.getId() == id` |
| `ratings` (violation) | 1 list, 2 songs, 3 requests | `RatingsAreKept` fails: lost update |
| `names` (violation) | 2 browsers, 2 navigations | `PageIsOwn` fails: the static field |

Bounds. `MaxRequests`, `MaxFailures`, `MaxRestarts`, `MaxCalls`, `MaxClicks`,
`MaxVisits` and `MaxReports` bound what the environment does, nothing else (the time
that the event loop needs, the events of an element and the timeouts that set
themselves again are not bounded); each run completes.

* Playlist service. Every request makes one pass through its handler, so two
  threads show each pairwise interleaving, and the conflicts of this code are
  pairwise: one copy and one write under it. Four requests are enough to create a
  list, fill it, and run two more against each other. With one exception per
  behaviour every call fails in some behaviour. One list is enough, since no
  handler touches two; the theorems hold for any number.
* Sessions. Two navigations log two users in, or give one page up for the next.
* List view. Six clicks open a list, rate into it, and delete one song twice with its
  dialog confirmed again after the element has gone, or rate while another list is
  opened; two visits leave one closure behind.
* jPlayer. Three calls set a media, delay a command on it, and set another. The
  commands that an earlier call delayed, the events and the repeats of a loop run on
  without limit. `jplayer_solutions` needs no bound.
* Music player. Three clicks are two changes of track under way at once with a pause
  or a click in the progress bar between them; the ends of tracks are not limited.
* Display and statistics. Four clicks change the track twice and rate before and
  after; two visits leave one view with its requests under way.

Threads, songs, lists, browsers, connections and (where all have a row) users are
interchangeable, which is the symmetry used; the runs with liveness use none.

When a bound is reached and all is answered the system stops: `Terminating`,
`Finished` and `Quiet` are those states, and deadlock is checked in every run.

Fairness. Nothing is assumed of users, of failing calls, of restarts and of jobs.

| Module | Weak fairness of | Why |
|---|---|---|
| `PlayListService` | `Handle(w)` for each thread | a thread that took a request runs on: driver calls return or throw, and no handler waits for another |
| `UserSession` | `Serve(c)`, `Arrive(c)` for each connection | the same, and answers arrive or are given up |
| `JPlayer` | `Deliver`, `Timeout`, the element that loads or breaks, the element that seeks | the event loop gets to every task; an element that loads comes to its metadata or to an error |
| `MusicPlayer` | `Ready`, `Hear` | the event loop |
| `PlayerDisplay` | `InterfaceBuilt`, `PlaylistLoaded`, `FadeEnds`, `ImageLoads` | jQuery's timers, and images that are not broken are loaded |
| `JobStatistics` | `Read`, `Arrive`, `Draw` | the server answers, the browser gets the answers and fires its timeout |

What the violations show:

* `rename`: alice creates a list, asks to rename it, and is answered 403: every
  rename and delete is.
* `ratings`: two `rate` requests read the same row; the second save erases the song of
  the first, and both are answered 200. The checked counterpart is
  `SerialRequestsLoseNothing`: without an overlap nothing is lost.
* `names`: alice's page is answered, bob's `index` runs, alice's page asks for its
  user name and shows bob. The checked counterpart is `UndisturbedPageIsOwn`.

## 4. Theorems

All are proved for every value of the constants that satisfies the named
assumptions of the modules. With them every safety property of the passing runs,
invariant or action property, is a theorem.

| Theorem | Statement |
|---|---|
| `TypeCorrect` | `Spec => []TypeOK` (`PlayListService`) |
| `CounterNeverBehind` | `Spec => []CounterCoversLists` |
| `RatingsSurviveSerialRequests` | `HSpec => []SerialRequestsLoseNothing` |
| `DeletionsSurviveSerialRequests` | `HSpec => []DeletedStaysDeleted` |
| `OneOwner` | `HSpec => []OneOwnerForever` |
| `OwnersAreKept` | `HSpec => []ListsKeepOwner` |
| `CreationsAreListed` | `HSpec => []CreateListsOwn` |
| `ServiceImplementsVersions` | `HSpec => ImplementsVersions`: the refinement of `PlayListVersions` |
| `NoMoreCopiesThanRatings` | `HSpec => []CopiesWereRated` |
| `OnlyLoggedInUsersAreShown` | `Spec => []ShownUsersLoggedIn` (`UserSession`) |
| `UndisturbedPagesAreOwn` | `Spec => []UndisturbedPageIsOwn` |
| `SessionTypes` | `Spec => []TypeOK` (`UserSession`) |
| `PageTypes` | `Spec => []TypeOK` (`BrowserPage`) |
| `PageAlwaysShowsStore` | `Spec => []PageShowsStore` |
| `InstanceTypes` | `Spec => []TypeOK` (`JPlayer`) |
| `OneTimerAlways` | `Spec => []OneTimer` |
| `DelayedCommandsAreCurrent` | `Spec => []DelayedCommandIsCurrent` |
| `OnlyWhatIsSetPlays` | `Spec => []PlaysWhatIsSet` |
| `ControlsAlwaysAgree` | `Spec => []ControlsAgree` |
| `TypeCorrect` | `PlaylistSpec => []PlaylistTypeOK` (`MusicPlayer`) |
| `MediaIsAlwaysCurrent` | `PlaylistSpec => []MediaIsCurrent` |
| `MarkIsAlwaysPlaying` | `PlaylistSpec => []MarkedIsPlaying` |
| `CurrentIsAlwaysVisible` | `PlaylistSpec => []CurrentIsVisible` |
| `AdvancesOnlyAtEnd` | `PlaylistSpec => AdvancesAtEnd` |
| `PlayerKeepsItsPromises` | `PlaylistSpec => [](PlaysWhatIsSet /\ OneTimer /\ DelayedCommandIsCurrent /\ ControlsAgree)` |
| `TypeCorrect` | `Spec => []TypeOK` (`JPlayerSolutions`) |
| `OnlyTheGateAlwaysSounds` | `Spec => OnlyTheGateSounds` |
| `CalmBrowsersKeepTheGate` | `Spec => [](~b.strict => p.loud \subseteq {p.gate})` |
| `FullMediaIsAlwaysAccepted` | `Spec => []FullMediaIsAccepted` |
| `FormatIsAlwaysTheSame` | `Spec => []SameFormat` |
| `FlashAlwaysResumes` | `Spec => FlashResumes` |
| `TypeCorrect` | `Spec => []TypeOK` (`PlayerDisplay`) |
| `RatingsAlwaysAgree` | `Spec => []RatingsAgree` |
| `CoverIsAlwaysCurrent` | `Spec => []CoverIsCurrent` |
| `TypeCorrect` | `Spec => []TypeOK` (`JobStatistics`) |
| `DrawnAlwaysAgrees` | `Spec => []DrawnAgrees` |

### Playlist service

`TypeOK` is more than types: it contains `WellFormed`, which ties a handler's
operation to the calls it makes and says that no writing call is reached without
a row. `WellFormed` is what makes it inductive.

`CounterCoversLists` is inductive with `TypeOK` and finiteness of the sets it
counts: an insert adds one list and one thread at `Increment`; that thread leaves
it by counting, or by an exception, which `failures` counts.

`HInv` is the inductive invariant of the two theorems about serial requests.
Neither property is inductive: what protects an acknowledged song is that a copy
about to be written back is the current row. `HInv` says so for every list that is
not `raced` (first conjunct of `RequestInv`), says that a rating that is saved and
not yet answered is in its list, that requests that take songs out are on record,
and that the id of a list to be inserted is in no table and in no other request
(`DistinctInserts`), so that an insert overwrites nothing.

`OInv` adds where rows come from: a row in the table, or held by a request, is a
version the list had (`VersionInv`); while a list is not deleted its
row is there, with the owner of all its versions (`OwnerInv`); and a creation past
its insert finds its row under its user, unless the list was deleted, since no
other write changes the owner (`CreateInv`). That the history variables `created`,
`deleted` and `versions` only grow is what carries this over every step. It needs
the assumption that `Null` is no user (`NullUserAssumption`).

`RefInv` joins `HInv` and `OInv` and is all that the refinement needs: each step
either writes one row, which is then one edit of a version (`StoreWrites`), or maps
to a stutter (`StoreStutters`). `CopiesInv` bounds the copies of a song in every
version of a list, not only in the stored one, by its ratings: a copy written back
later is a version too. Its lemmas count positions in a sequence (`Places`).

`PlayListHistoryProofs` begins with what the row operators do, above all that
removing one song keeps the others (`WithoutSongKeeps`), from the least-element
principle, since `RemoveFirst` is defined by a `CHOOSE` of the first position.

### Sessions

`SessionInv` is the inductive invariant. A browser waits for one page or for the
scripts of the page it shows (`OnePage`, `Expected`); the page it shows or awaits is
the page of its cookie (`PageOfCookie`); and until somebody overwrites it the static
field holds that user (`Undisturbed`).

### List view

`PageInv` is the inductive invariant. `PatienceInv` says what a list that is not
`disturbed` is spared: it has one request at a time, a rating of it goes to the list
that is open in its closure, and a deletion is about an element that is on the page.
With `CopyInv` (what such a request has read is what is stored), `ShownInv` is then
kept: the elements under the list are the row, one less between the save and the
answer of a rating, one more between those of a deletion (`Balance`). `ApartInv`
tells requests, and the elements that answer them, apart; without it two answers
could become one element, and the count would be one short. `ViewInv` ties what is
loaded, shown and chosen to the visit. The proof needs that `Null` is no list, song or
request (`NullAssumption`, `NullRequestAssumption`) and that the bounds are natural
numbers.

### Player

`Good` is proved of the operators of `JPlayerMethods`, one lemma for each method and
listener: whatever instance satisfies it, the method leaves one that does. It says
that the record has its type, that there is one timeout at most, which is then held,
and that it is for the media that is set. `OneTimer` and `DelayedCommandIsCurrent`
follow.

`Sound` adds what `PlaysWhatIsSet` needs: an element that can be heard is the one
behind the open gate, with the URL of the media that is set, and is not waited for
(`Audible`); a media that is set has its element, which has its URL unless the load is
still to come (`Prepared`); and an element with an error event in its queue has failed
(`ErrorsAreReal`), so that `OnError` never takes an element that plays for one that
waits.

`Controlled` is the invariant of `ControlsAgree`, which says nothing while events are
on their way and so is not inductive. `Agrees` says what a queue will make of the
controls: its last event that shows playing or paused shows what the element is, or
there is none and the buttons show it already (`EndsIn`), and the same for the seek
bar; an `ended` still to be handled will pause the element, and an `error` starts all
over. Every method of an element adds to its queue what restores this
(`PlayAgrees`, `PauseAgrees`, `SeekAgrees`, `BrowserAgrees`), and handling the first
event keeps it (`TakenAgrees`). The rest is why no event of an old media counts:
whenever `waitForLoad` is set the buttons show paused, which is what the element is
when it has loaded (`LoadAgrees`), and `setMedia` leaves it set or loads
(`HtmlSetLoads`, from `SwitchedWaits`). It holds of browsers that throw as well.

`ListInv` is the invariant of `MusicPlayer`. To `Sound` it adds what jPlayer does not
know: the media that is set is that of the current track, and an element that plays
has a `play` event in its queue, or its track is marked (`Announced`). A method never
starts an element without queueing `play` (`PlayAnnouncesNothing`) and a load drops
the queue with what it played, so the mark always catches up. `AdvancesAtEnd`
follows from `Prepared`: an `ended` event that is heard comes from an element with the
URL of the current track. `PlayerKeepsItsPromises` carries `Sound`, `Good` and
`Controlled` over to the steps of the playlist, which are several calls of jPlayer in
one. Assumed are a list with a track in it and that the option `tracksToShow` is not 0;
its default is 25, and no page sets it.

`GatedInv` is the invariant of `JPlayerSolutions`: what sounds behind the open gate
belongs to the active solution and was started after the media was set, the movie is
silent when its gate is closed, and in a browser that does not throw nothing sounds
elsewhere. From it every way of `setMedia` to leave the previous solution is seen to
silence what was behind the gate (`LeavingSilences`). A media that nothing can play is
the exception (`UnsupportedCloses`): `setMedia` pauses only if `waitForPlay` is
cleared, and a strict browser may have thrown before it was. `OnlyTheGateSounds` is
therefore a property of steps, which names this step (`Escapes`) and excludes all
others. `MediaInv` adds that a media that is set can be played, and that
its format and solution are what the options and the browser choose for it;
`ChoiceInv` says this with the types of browser and options. It rests on lemmas about
`Earliest`, the first name of an option that is in a set, which is the loop with an
early exit of `_init` and `setMedia`. Of the options only this is assumed: that they
are lists of names, known to jPlayer or not; of a media, that its URLs have names of
formats.

`RatingsInv` says of `PlayerDisplay` that the list, the rows and the stars agree, and
what rounding can make of an odd rating. `CoverInv` says that the cover that will be
seen when the queue of animations has run (`WillBeSeen`) is that of the current track.
`DrawnInv` says of `JobStatistics` that `graphsData` is set by the second of two
answers, and that a pill that nobody clicked too early is that of the times until they
are drawn; `Ranges` gives the types, with a lemma that `First` is a job or `None`.

`Earliest` and `First` are written with `SelectInSeq` of the community modules, the
least index by `CHOOSE`, so that the least-element principle of the naturals proves
what they return, and no induction over sequences is needed.

### Only model-checked

* Liveness, since fairness and ENABLED are out of the prover's reach:
  `EveryRequestIsAnswered`, `RedirectsEnd`, `DelayedCommandsFinish`, `TracksFollow`,
  `CoverComes`, `ChartComes`.
* What is outside the statements: the violation runs, which are behaviours, and that
  every action can happen, which the runs show.

No module of the proofs declares a RECURSIVE operator.

## 5. Seen in the code, without a run

These came up while modelling. No text of the repository says otherwise, or the
situation is outside the models.

* `ttw-music-player.js:165` reads the option `autoPlay` as `options.autoplay`, so the
  player never starts by itself (`Ready`).
* `ttw-music-player.js:68`: the handler that makes the ratings is bound to
  `mbInterfaceBuilt` when the playlist has been built; if the interface was first, the
  event is missed and a click on a star does nothing (`live` of `PlayerDisplay`).
* `ttw-music-player.js:190`: a track that cannot be loaded stops the playlist.
* `jquery.jplayer.js:733`: `destroy` resets the status before it asks for `srcSet`, so
  it never pauses and a delayed command outlives the instance, to no effect.
* `jquery.jplayer.js:1242`: after a `play(time)` out of which the browser threw,
  `setMedia` with a media that no format can play leaves the old one playing.
  `PlaysWhatIsSet` excepts browsers that throw for this reason, and `OnlyTheGateSounds`
  the step itself; that no other step does it is checked and proved.
* `jquery.jplayer.js:1329`: `pauseOthers` reads a destroyed instance from the table.
* `jquery.jplayer.js:1746`: `stop(true, true)` completes a fade whose callback sets the
  timeout that was cleared before it.

## 6. Not modelled

* Of jPlayer: volume and mute, full screen and autohide, poster, texts and sizes,
  `emulateHtml`, and the movie `Jplayer.swf`, which is not source. None of them feeds
  back into what is set and what plays. `ttw-music-player-min.js` is a copy that no
  page loads.
* Of `ttwMusicPlayer`: hover classes, heights, `togglePlay` (its event is never
  triggered).
* Of the list view: the page numbers of the player, `addProjectIntoFolder` and
  `deleteProject`, which no element of the page reaches.
* The track catalogue: no handler writes it. A track is a title or an unknown id in
  `PlayListService`.
* The schema statements of `SchemaManager` and the connection of `ClusterManager`:
  no handler depends on their outcome. A restart is an action of `UserSession`.
* The init service and the benchmark scripts: shell and Python of the host, without
  state shared with the application; JMeter plans.
* `LocalCollaborativeFiltering` (commented out), `main.coffee` (no view loads it), the
  bundled libraries, templates and styles, and the methods of the controllers that no
  handler calls (`getUserID`, `hasPlayLists`, `getAll...`,
  `create(User, String, String)`, `findByTitle`, `persist` of tracks and users).

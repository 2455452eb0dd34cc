# A verification project for the Mattermost Google Drive plugin

TLA+ modules that model the plugin's server (`src/server/plugin`), the TLC
configurations that check them on small instances, and proofs checked by TLAPS.
Lines are those of the repository at this commit; paths without a directory are
under `src/server/plugin/`.

## 1. The system and its parts

The plugin runs on every node of a Mattermost cluster. All that outlives a
request is in the KV store, shared by the nodes; all else is goroutines.

| Component | State it keeps | Operations | Model |
|---|---|---|---|
| Watch channel lifecycle (`notifications.go:233-372`) | KV `drive_change_channels-<user>`: channel ID, resource ID, expiration, token, page token, user | start, stop, refresh | `WatchChannel` |
| Webhook (`api.go:489-720`) | the same record; KV `last_activity-<user>-<file>`; cluster mutex `drive_watch_notifications_<user>` | one request per push from Google | `WatchChannel`, `FileActivity` |
| Channel refresh job (`plugin.go:80-132, 165-171`) | none of its own | every 12 hours on one node: list, test, hand to 5 workers | `RefreshJob` |
| OAuth connection, broker and cluster events (`api.go:150-365`, `oauthbroker.go`, `cluster.go`) | KV state tokens and user tokens; per node the subscriptions | connect, complete, publish, subscribe, close | `OAuthConnect` |
| Google client and rate limits (`google/`) | KV flags that live 10 seconds; one token bucket per node | build a service, call it, read a refusal | `RateLimit`; services and tokens in `Account` |
| KV store (`kvstore/google.go`) | all of the above | atomic read, write, delete of one key; listing by page | inside each module |
| Slash commands (`command.go`) | none | connect, disconnect, notifications start/stop, setup | `WatchChannel`, `Account`; parsing in `Texts` |
| File creation (`create.go`, `api.go:365-487`) | none | one dialog: check membership, create, share with the members, tell, post | `FileCreation` |
| Uploads, comment replies (`api.go:725-955`) | none | dialogs that call Google and post | `Uploads` |
| Activation, configuration, setup wizard, OAuth2 wrapper (`plugin.go`, `config/`, `flow.go`, `oauth2/`) | each node's configuration, and the clients built from it; the saved settings | activate, load and reload, submit the wizard's form | `PluginConfig` |
| Strings (`command.go:90-138`, `utils/utils.go`) | none: pure functions | parse a command, mask a text | `Texts` |
| Router, rendering, encryption, web application, build tools | none | | see section 8 |

**Interactions.** Google pushes to the webhook; the webhook, the commands and
the job's workers all read and write the one watch record of a user, and only
webhooks take the mutex. The job's workers change the key set the job is paging
through. An OAuth callback may be served by another node than the one on which
the user waits, so its outcome travels through the broker of its own node and,
as a cluster event, to the brokers of the others. Each call to Google passes
the rate-limit check. Every Drive service is built anew from the user's token, so
whether the account is connected decides what commands, workers and webhooks still
get. The settings are saved in one place and copied three times on each node: by
the hook into the configuration, from there into the OAuth2 wrapper and into the
Google client; activation, the hook, the wizard and the callbacks all touch them.

**What is hard here.** A record that is read, used for several remote calls and
written back (webhooks, commands, workers); the order "delete the record, then stop
the channel"; page tokens that may be saved only over processed changes, in the face
of failed writes and dead nodes; offset paging over a changing key set; an unbuffered
channel between the job and its workers; subscriptions that may be closed, time out,
or be published to at once; the timer against the callback; retries of activity
queries while activities go on arriving; flags read before a wait and used after it; a
unit of time read as another; a struct that one goroutine writes in place while
another replaces it; a request of several steps that fails halfway and is submitted
again. `PROJECT.json` lists each under `hazards`, at its line, with the properties
that look for it.

**What makes each part correct.** A saved page token never moves back and never
passes a change that was not processed (webhook). A record never names a channel
the plugin stopped (commands, workers). Every due record is handed to one worker
per run and no channel expires (job). A callback reports what it did, one that
begins after a state token was used is refused, a waiting goroutine always leaves the
broker (OAuth). Every comment and share leads to a post, and to one only (file activity). After a
refusal at most the call that was on its way is sent (rate limits). An outsider
creates nothing in a channel, and every member is given access or is named to the
owner (file creation). "Successfully uploaded" is said of files that are there, and
each reply at Google is accounted for (uploads, replies). Nothing that begins after a
disconnect reaches Google (account). Each node ends up with what was last saved, a
stored token can be decrypted everywhere, and the wizard congratulates only whom it
served (configuration).

## 2. Modules

| Module | Role |
|---|---|
| `ChangeFeed` | abstract specification of delivery: a position per channel that only moves forward, over changes processed in order |
| `WatchChannel` | one user's record: commands, refresh workers and webhooks; implements `ChangeFeed` |
| `OAuthConnect` | one user's connection attempts, callbacks, brokers, events |
| `RefreshJob` | the periodic job over all users' records |
| `FileActivity` | what the webhook does for one changed file |
| `RateLimit` | flags, bucket and refusals |
| `Account` | `WatchChannel` with the user connecting and disconnecting the Google account |
| `FileCreation` | one dialog that creates a document, and the channel it is shared with |
| `Uploads` | dialogs that upload a post's files, and replies to a comment |
| `PluginConfig` | saved settings, activation, the configuration hook, the wizard, the key of a token |
| `Texts` | `parseCommand`, the command dispatch and `LastN` against reference definitions |
| `MC...` | instances for TLC |
| `WatchChannelProofs`, `DeliveryProofs` | theorems about `WatchChannel` |
| `AccountProofs`, `OAuthProofs`, `RefreshJobProofs`, `FileActivityProofs` | theorems about `Account`, `OAuthConnect`, `RefreshJob`, `FileActivity` |
| `GoogleClientProofs` | theorems about `RateLimit` and `PluginConfig` |
| `RequestProofs` | theorems about `FileCreation`, `Uploads` and `Texts` |

`WatchChannel` leaves open when a worker gets a record (`RefreshPick`), which
`RefreshJob` decides, and what processing one change means (`HookDispatch`), which
`FileActivity` spells out. `Account` extends it: each step of a process is the step of
`WatchChannel`, constrained by the token (`Authorised`). Keys and the mutex carry the
user ID, so one user is enough for all modules but `RefreshJob` and `RateLimit`.
`RefreshJob` takes in one step each what the commands, webhooks and other requests do
to the keys it pages through.

### How states and actions correspond to the code

*`WatchChannel`.* `data` is the KV record: only the channel ID (`chan`) and the
page token (`page`) matter, since the other fields are set and emptied with
them. `chan[c]` is Google's view of a channel, `head` its change log. `lock` is
the cluster mutex; `Orphan` is the lease a dead node leaves behind. Each process
has its label (`pc`) and the code's locals. Every KV call and Google call is one
action, named after the call or the function: `StartCheck`, `GetStartPageToken`,
`Watch`, `StoreChannel` (start); `StopCheck`/`WorkerStopCheck`, `DeleteChannel`,
`StopChannel` (stop); `HookCheck`, `HookLock`, `HookRead`, `HookList`,
`HookActivity`, `HookDispatch`, `HookSave`, `HookUnlock` (webhook). `HookSave` is
the deferred store, which runs before the deferred unlock. Remote calls fail by
choice, and some are lost after taking effect. `opened`, `handed`, `cursor`,
`redo` are history.

*`OAuthConnect`.* An attempt is a visit of `/oauth/connect` with its goroutine; a
callback a visit of `/oauth/complete`. `subs`, `closed` and `buf` are the broker
of each node and the one-place channels; `events` are cluster messages, which
may be delayed, reordered or never delivered. Disconnecting is one step: what it
reads first only chooses its answer. `late`, `used`, `wrote`, `failed` are history.

*`RefreshJob`.* Time counts runs of the job. `present` is the key set, listed by
`ListKeys` exactly as `KVList` pages: cut first, filtered after. `batch` is the
rest of a page, read in the order of the keys (`First`), `inHand` what each worker
received; a key deleted after it was listed reads as a zero record, which is due.
`unit` is what Google's `Expiration` counts, to the second that `time.Unix` takes it
for: 1000 in this code (`notifications.go:267`, `plugin.go:122`), 1 as the job was meant
and as its unit test has it. `Remove` and `Insert` are the two ways the key set moves,
by workers, `UserStop` and `UserStart`, `WebhookStore` (a zero record) and `OtherKey`
(tokens, states, last activities). `owed`, `served` are history; so are `listed`,
`raised`, `lowered`, `cutShort`, which say what the moves did to the paging.

*`FileActivity`.* `log`, `modified`, `viewed`, `changed` are Google's side, the
rest the KV entry and the locals of the handler; `older` is the page token of an
activity query. An activity may or may not move `ModifiedTime`; that is up to Google.
`Report` posts the activities oldest first and computes the time
`StoreLastActivity` saves. `notified`, `settled`, `again`, `summed`, `cut`, `quiet`,
`overlooked` are history.

*`FileCreation`.* `members` is the channel, `access` the document's permissions,
`named` what the owner was told. `List` is one page of `getAllChannelUsers`, `Grant`
one turn of the loop over permissions, whose locals keep the code's names (`next` is
`i`). A panic ends a request with the empty answer, as `withRecovery` does.
`was`, `stayed`, `denied`, `excused` are history.

*`RateLimit`.* `userFlag` and `projectFlag` are the KV flags, `tokens` the
bucket. A caller builds a service, checks the flags, waits for a token, sends.

*`Account`.* `token` is the KV entry that `completeConnectUserToGoogle` stores and
`handleDisconnect` deletes; nothing else is deleted, so the channel and its record
stay. `service` holds the processes whose Drive service was built with a token
(`NewDriveService`, at its three places). Google answers nobody else (`Authorised`).
`away`, `gone` are history.

*`Uploads`.* `stored` and `replies` are at Google, `threads` and `dialogs` in
Mattermost. `fileIDs` is the code's variable, `place` where the handler is. A dialog
stays open unless its answer is empty, so `SubmitDialog` may repeat it. `half` and `errors`
count the answers that tell of a reply without a post.

*`PluginConfig`.* `saved` is the server's copy of the settings, `notice` the hooks it
still has to call. `conf[n]` is `*p.configuration`; as the hook replaces the pointer, a
form in hand keeps the old struct (`form.shared`, `form.struct`). `SubmitOAuthConfig`,
`WriteSecret`, `SaveForm` are the three steps of `submitOAuthConfig`, which takes no
lock; `Load`, `SetConfiguration`, `Register`, `ReloadConfig`, `ReloadConfigs` those of
`OnConfigurationChange`; `Activate`, `SaveDefaults`, `Schedule` those of `OnActivate`,
which ends by building the two clients, each in two steps: `GetOAuthConfig` and
`NewGoogleClient` read the configuration, `SetOAuthConfig` and `SetGoogleClient` assign
the client. The hook may run between any two of these, and reloads only what is assigned.
`taken[n]` is what `OnActivate` has read and not yet used. `clientKey[n]` is the key a
client was built with and keeps. `behind`, `overtaken`, `unsaved`, `kept`, `since`,
`fresh` are history.

*`Texts`.* `line` is the input as far as the loop of `parseCommand` has read it; `split`,
`current` and `inQuotes` are its variables. `Read` is one turn of the loop, and the
operator `parseCommand` what is returned if the input ends here. `Carried`, the dispatch,
and `LastN` are operators.

Definitions marked "(A mistake ...)" are not part of a specification. Each is a
changed form of one action, as a bug would change it; every property of a passing
run is shown to fail when its mistake is put in.

## 3. Runs

| Run | Instance | What it shows |
|---|---|---|
| `WC_delivery` | 1 command, 2 webhooks, 2 channels, log of 2 changes, one page per request, failed writes and crashes; beside it `Account` with 1 command or worker and 1 webhook at a time | `NoChangeSkipped`, `HandedOnce`, `ImplementsChangeFeed`; `NothingAfterDisconnect` |
| `WC_refresh` | 2 commands and 1 worker of `WatchChannel` on 3 channels, no webhook, all faults; beside it `RefreshJob` with 3 keys, 2 of them records, 1 to a page, 2 workers, either unit, users and webhooks acting, all faults, 2 runs of the job | `NoStoppedRecord`; `EveryDueServed`, `OneWorkerPerUser`, `JobEnds` |
| `WC_live` | 1 command, 1 worker, 2 webhooks, at most two of them at once and never the command with the worker, 1 channel, two pages per request, all faults | `EveryCallReturns`, `LockReleased` |
| `OA_connect` | 2 attempts, 2 callbacks, 2 nodes, failing deletes and encryption, deactivation | `ReportIsTrue`, `NilMeansStored`, `ReplayRefused`, `NeverPanics`, `WaitersLeave` |
| `FC_create` | 5 users, four of them joining and leaving, the fifth a bot that may be there, 2 to a page, 2 permissions before the limit, all faults; beside it `Uploads` with 3 files, 2 comments, 4 replies; beside it `Texts` with lines of 6 tokens; beside it `FileActivity` with 4 instants, queries of up to 2 pages, activities that move `ModifiedTime` or not, all faults | `OnlyMembersCreate`, `EveryMemberAccounted`; `UploadedMeansAll`, `RepliesAccounted`; `WordsAreStretches`, `OnlyNamedIsCarried`, `LastNKeepsLast`; `NotifiedOnce`, `NothingMissed` |
| `GC_client` | 3 goroutines of 2 users, 2 services, one with the bucket; beside it `PluginConfig` twice, with 1 save in the System Console: one node at a time, all settings, the wizard, failing calls and restarts; and two nodes with two keys, failing loads of the settings, saves and restarts | `AtMostOneLate`; `Converged`, `TokensReadable`, `DoneMeansSaved` |

Each module's `TypeOK` is checked in its first run (with a prefix where modules share
one: `JobTypeOK`, `ActivityTypeOK`, `ConfigTypeOK`, `UploadsTypeOK`), but for the few flags
and sets that `Account` adds and the loop variables of `Texts`. Six runs end in a violation
on purpose; each shows a disagreement between the code and what the repository says of it
(`findings` in `PROJECT.json`):

| Run | What TLC finds |
|---|---|
| `WC_enabled` | the deferred store (`api.go:592`) writes back a record whose channel was stopped meanwhile; the user is then told notifications are already enabled |
| `OA_delete_error` | a failed delete of the state token (`api.go:281`) reports an error and connects all the same |
| `RJ_units` | `Expiration` is in milliseconds and is read as seconds (`plugin.go:122`), so no channel is ever refreshed |
| `FA_seen` | "already opened after the last change" compares `ViewedByMeTime` with `ModifiedTime` (`api.go:636`), so a comment on a file opened since its last modification is never reported |
| `RL_detail` | any further detail of a refusal of one user's quota, a help link say, sets the flag of the whole project (`google/google.go:287`) |
| `FC_told` | a refused permission for anyone with the link panics (`create.go:162`); the dialog is answered like a success, nobody is told, nothing is posted |

**Side by side.** Components that answer to one another share a module; those that
share no state (`FileCreation`, `Uploads`, `Texts` and `FileActivity`; `RateLimit` and
`PluginConfig`; `RefreshJob` and a `WatchChannel` without webhooks)
share a run instead, in which a variable `part`, chosen at the start, says which of
them moves. Their product would multiply states and show nothing new. In `MCAccount`
the two parts are two sizes of one system: two racing webhooks without the account,
and the account with one webhook beside one command or worker, where no save is lost.
In `MCGoogleClient` `PluginConfig` likewise comes in two sizes (`OneNode`, `OnlyKeys`):
the stale copies of a setting are a matter of one node, the keys a matter of two.

**Bounds.** `MaxHead`, `MaxTime` stop the log and the clock; nothing else stops the
processes, which start over and over. Two webhooks meet for the mutex, one waiting
while the other works, and a third could do nothing new; two channels let an old one
and its successor coexist, three let two starters race past a stopped one. A log of
two changes and one-change pages make a request stop short of the end and the next one
go on. In `WC_live` an action constraint (`AtMostTwo`) keeps a third process from starting
while two run; starts are never fair, so every step that must come stays. Three keys on pages of one, one of them no record, put a key before, behind and
on the page being read, so that records slip down, come again, and hide behind a page of
another key; two workers make the send wait, and the second run of the job finds due
what the first renewed or did not. Two pages of activities and `MaxQueries = 2` meet
both ends of the query loop. Five members make three pages, and three guests one more
than the limit. The account connects, is disconnected while anything is on its way,
and something begins after that; `MaxConnects = 1` is enough, as connecting clears the
history. Three files have a first, a middle and a last, four replies repeat one twice
beside another thread. One node of `PluginConfig` has its hook, its activation and a form
all running at once, and two nodes generate two keys, replace one by the other and
store tokens with either; the theorems hold for any number of nodes and keys, all at
once. Six
tokens hold `/google-drive notifications stop` with spaces and one more. `Many`,
`MaxPages`, `PerPage`, `MaxShares`, `Life` and `Ahead` are the code's 5, 5, 100, 60, 7
days and 24 hours scaled down. Only safety runs use symmetry. `CHECK_DEADLOCK FALSE`
stands where the system may stop: every request served, or the clock at its bound.

**Fairness.** `WatchChannel`: each process that has begun takes its steps, since
goroutines are scheduled and the calls they wait for return or time out; an
abandoned lease expires. A waiting webhook needs no fair mutex: its wait ends
with the request's 60-second context. `OAuthConnect`: a request that has begun runs
on and the 45-second timer fires; no fairness for users, events or deactivation.
`RefreshJob`: the main goroutine and each worker are scheduled. Nothing obliges
Google, a user or the scheduler to begin anything.

## 4. Proofs

The theorems hold for any sets of processes, channels, users and nodes and any
bounds, under the assumptions on the constants that each module states and TLC
evaluates in its runs (`ProcAssumption`, `ConfigAssumption` and their like).

`WatchChannel` (`WatchChannelProofs`, `DeliveryProofs`):

* `TypeCorrect`: `Spec => []TypeOK`.
* `StoppedStaysOut`: if there are no webhooks, `Spec => []NoStoppedRecord`. The
  property is not inductive, because what goes wrong starts in a local variable.
  `CommandInv` adds that whoever holds a channel knows one that exists (`Named`),
  that a channel about to be stored is live, unrecorded and known to its creator
  only (`Fresh`), and that one about to be stopped has left the record (`Dead`).
  With webhooks the property is false: `WC_enabled` ends in such a state.
* `NothingIsSkipped`: `Spec => []NoChangeSkipped`, webhooks, failures and
  crashes included. `FeedInv` follows a page token on its way: a start token is a
  position of the log (`WatchInv`), the channel about to be stored is new to
  everybody (`StoreInv`), the record holds the token last saved (`RecordInv`), a
  webhook past the mutex is alone (`LockInv`), started from that token and has
  processed all it has passed (`HookInv`). `DeliveryProofs` has one lemma per kind
  of step; a frame lemma disposes of steps that only move a process.
* `HandedOnlyOnce`: `Spec => []HandedOnce`. `OnceInv` adds to `FeedInv` that a
  processed change lies below the saved token, or is in the hands of the webhook
  that is about to save past it.
* `RefinesChangeFeed`: `Spec => ImplementsChangeFeed`. `Watch` maps to `Open`,
  `StoreChannel` to `Begin`, `HookDispatch` to `Process`, `HookSave` to `Advance`
  and `Change` to `Grow`, or to a stutter; all other steps stutter.

`Account` (`AccountProofs`, which extends `WatchChannelProofs`):

* `AccountImplements`: `AccountSpec => Spec`, so all of the above holds while the user
  connects and disconnects. A missing token only takes choices away.
* `DisconnectedIsOut`: `AccountSpec => []NothingAfterDisconnect`. `OutOfTouch` adds that
  there is no token while the user is away, that an idle process has no service, and
  that whatever began since then has none either: it may hold a record, but nothing
  from Google.

`OAuthConnect` (`OAuthProofs`):

* `OAuthTypes`: `Spec => []TypeOK`, with `Proceeding`: a callback past its first step
  knows its state.
* `NoChannelPanics`: `Spec => []NeverPanics`. `Channels` adds that who is subscribed
  is so with the broker of his own node, and that only a closed broker closes channels.
* `ReplaysAreRefused`: `Spec => []ReplayRefused`. `Replays` adds that a late callback
  finds its state gone.
* `ReportsAreTrue`, `NilIsEarned`: `Truthful` follows `rErr` through the handler, and
  `NilsEarned` follows a success from the callback through the buffered
  channels and the cluster events to whoever hears of it.

`RateLimit` (`GoogleClientProofs`):

* `RateLimitTypes`: `Spec => []TypeOK`.
* `OneLateCall`: `Spec => []AtMostOneLate`. `LateStopped` says that whoever has sent
  a late call is back before the check, with a flag up that stops him there.

`PluginConfig` (`GoogleClientProofs`):

* `ConfigTypes`: `ConfigSpec => []ConfigTypeOK`, with `Held`: a form and a callback are on an
  active node.
* `OneKey`: `ConfigSpec => []TokensReadable`, for any nodes and keys. `KeysAgree` says of
  the node that made the saved key, and of each that has started and loaded it since
  (`since`), that every copy on its way holds the saved key (`KeyAt`, by the stage of
  the activation and of the hook), and of a fresh callback and token that theirs is the
  saved one.
* `WizardSaves`: `ConfigSpec => []DoneMeansSaved`. `FormTrue` says where the first value written
  is until the second one is, also when the hook replaces the struct in between.

* `SettingsConverge`: `ConfigSpec => []Converged`, on any number of nodes. `CurrentAt` says for each
  step of the hook and each stage of the activation which copies are those of the saved
  settings by then: what has been loaded, the configuration, what `OnActivate` has taken,
  the OAuth client, the limiter. A save makes them stale only where the node is told of
  it, and a client only if the hook noted it as `overtaken`.

`RefreshJob` (`RefreshJobProofs`):

* `RefreshJobTypes`: `JobSpec => []JobTypeOK`, with `RunInv`: nothing is left on a page or
  with a worker when a run is over.
* `RefreshOneWorkerPerUser`: `JobSpec => []OneWorkerPerUser`, for any number of pages.
  `PageInv` says that a listed key which nothing has pushed up lies before the page to
  be listed next, `HandInv` that such a record is on the page or in one hand.
* `RefreshEveryDueServed`: `JobSpec => []EveryDueServed`, for any number of pages and either
  unit. `OwedInv` follows the records that were due from beyond the pages listed, where
  they stay unless a key before them goes, to the page and to the worker. Its heart is
  that an empty page is the last: the places below a stored key's are all taken
  (`BeforeOnto`).

`FileActivity` (`FileActivityProofs`):

* `FileActivityTypes`: `ActivitySpec => []ActivityTypeOK`.
* `FileActivityNotifiedOnce`: `ActivitySpec => []NotifiedOnce`. `OnceInv` bounds what has
  been posted, but for what did not move `ModifiedTime`, by the times stored and at hand;
  `BumpInv` says that what moved it lies at or before it.
* `FileActivityNothingMissed`: `ActivitySpec => []NothingMissed`, without any assumption on
  `ModifiedTime`. `CoverInv` says at each place of the handler where
  an activity is that the user has not got: before the page token `older`, in hand,
  or after the change that is yet to come.

`FileCreation` (`RequestProofs`):

* `FileCreationTypes`: `Spec => []TypeOK`.
* `OutsidersCreateNothing`: `Spec => []OnlyMembersCreate`. `Outside` says that the
  request of somebody who has not been in the channel never gets past the first check.
* `EveryMemberIsAccountedFor`: `Spec => []EveryMemberAccounted`. `Accounts` says that the list
  has whoever stayed and is on the pages read, and that the loop has granted or noted
  all before `i`. It needs that somebody joining moves nobody to an earlier
  page, and that the first empty page is the last (`RankOnto`, `LastPage`).

`Uploads` (`RequestProofs`):

* `UploadsTypes`: `UploadsSpec => []UploadsTypeOK`.
* `UploadedIsAll`: `UploadsSpec => []UploadedMeansAll`. `UploadFiles` says that the files left
  are all different and none of them is there, and all others are, once.
* `EveryReplyAccounted`: `UploadsSpec => []RepliesAccounted`. `ReplyTally` counts the
  reply that is at Google and not yet told of; `OwnThreads` keeps each dialog with the
  thread it was opened in.

`Texts` (`RequestProofs`):

* `WordsAreRight`: `TextsSpec => []WordsAreStretches`, for lines of any length. As the
  loop is a step machine the argument is an invariant, not an induction over the line:
  `StretchInv` says that the words in `split` are the stretches that have ended,
  `current` is the text of the last one so far, and `inQuotes` counts the quotes.
* `OnlyNamedCarried`: `TextsSpec => []OnlyNamedIsCarried`. Between the end of a stretch and
  the beginning of the next there is only white space, so the first three words are what
  the property says.
* `LastNIsRight`: `TextsSpec => []LastNKeepsLast`.

Only model-checked: the liveness properties `EveryCallReturns`, `LockReleased`, `JobEnds`
and `WaitersLeave`, which are outside the prover's reach. Every safety property of the
passing runs is a theorem. `NoneExpires`, `ProjectFlagEarned` and `SeenIsAfterChange` are
false of the code, like the other properties of the runs that end in a violation, and
nothing is proved of them.

## 5. Assumptions of the models

* A KV call is atomic and may fail; a failed write has not taken effect. A missing
  key reads as a zero value without an error, as the plugin API does.
* A live holder does not lose the cluster mutex: the library renews its lease.
* Dealing with one change does not panic (Google names the author of a comment, say, and
  `HookDispatch` ends normally). A panic there would run the deferred store
  (`api.go:587`) and so save the page token past changes that were not dealt with.
* `LastN` counts bytes, and its lines are taken to be of one-byte characters.
* Google numbers changes without gaps, and every activity carries a timestamp.
* Times that do not parse, and removed files, end a handler at once and are left out.
* Mattermost lists a channel's members by name and cuts pages by offset; users have
  an e-mail address.
* The 5 workers of one run of the job have no competitor: the scheduler runs the
  job on one node at a time.
* Mattermost calls a node's configuration hook once at a time, and once before
  `OnActivate`; it tells every running node of a save. One administrator uses the wizard.
* The two credential fields the System Console saves are changed together; `BurstSize`
  is treated like `QueriesPerMinute` and left out.

## 6. Deviations that have no run of their own

The models contain these; the properties set them apart where they say so.

* When marshalling or encrypting the token fails (`api.go:300-312`) the handler
  returns without setting `rErr`: the waiting goroutine is told that all went well
  (`ReportIsTrue` excludes `failed` callbacks).
* A worker that was handed a record before its user stopped notifications ignores that
  there is nothing to stop and starts a channel (`plugin.go:93`). Hidden while no record
  is ever due.
* When only the latest activity is wanted the code still follows page tokens until it
  has more than five (`api.go:685`, against the comment above it).
* Members are listed by offset while they come and go, and a failed page ends the list
  (`plugin_utils.go:35-37`): the members it hides get no access and are not named.
* The job pages by offset while workers and others delete and store keys
  (`plugin.go:105-128`). A due record is passed over in a run if a key before it was
  deleted while it waited for its page (`lowered`), or if it lies behind a page on which no
  key is a record's, which is empty after filtering and ends the run (`cutShort`). A
  record is listed again if a key before it was stored (`raised`), so that two
  workers may hold one user's. `EveryDueServed` and `OneWorkerPerUser` set apart exactly
  these and hold otherwise.
* A webhook that waits for the mutex while its record is deleted stores a zero record
  (`api.go:550, 592`). The job finds it overdue and gives a worker a user without a name.
* An activity that did not move `ModifiedTime` may be posted again (`NotifiedOnce` stops at
  `quiet`): after more than five activities, or a viewing, an earlier time is written over
  its own (`api.go:637, 699`).
* The state token is read, deleted and compared in separate calls (`api.go:268-289`): two
  callbacks that both read it before either deletes it both connect.
* The error of a cluster event marshals to `{}` and is not read back
  (`cluster.go:43-47`), so other nodes never hear of failures.
* Refreshing or restarting takes a fresh page token (`notifications.go:241`):
  changes since the last saved one that no webhook has fetched are not reported.
* Disconnecting leaves the channel and its record (`command.go:213`). After connecting
  another Google account, webhooks of the old channel use the new token with the old
  account's page token.
* Submitting an upload of all files again after an error uploads those again that were
  uploaded (`api.go:921`); so does a reply whose answer was lost (`api.go:834`).
* "the struct returned by this API call is considered immutable" (`plugin.go:208`),
  but the wizard (`flow.go:253-254`) and `SetDefaults` on activation (`plugin.go:66`)
  write through the pointer. The model has it; on one node with one administrator
  `Converged` holds all the same, with two wizards on a node the saved pair may be
  torn.
* The wizard saves all settings from its node's copy (`flow.go:261`): a change made in the
  System Console that this node has not loaded yet is undone.
* The wizard accepts blank credentials: the map of field errors it returns is never
  filled (`flow.go:243-250`). When saving fails, the values stay in the node's
  configuration (`unsaved`).
* The Google client keeps the struct, and so the key, it was built with
  (`google/google.go:336-340` reloads the limiters only): after the saved key has been
  replaced, by an administrator or by a node that generated another, new tokens
  are encrypted with one key and decrypted with the other until each node restarts.
  `TokensReadable` is about the node that made the saved key, the nodes started since, and
  the callbacks begun on them (`since`, `fresh`).
* If the settings cannot be loaded when a node starts, the hook's error leaves a nil
  configuration and `OnActivate` saves defaults over what was saved, new key included,
  while its client may have none (such a node is not in `since`); two nodes that start
  at once without a saved key each generate one, and the later save wins
  (`plugin.go:66-84`).
* `OnActivate` reads the configuration, builds a client and only then assigns it
  (`plugin.go:172, 174`). A hook that replaces the configuration after the reading and
  finds the client still nil (`plugin.go:275, 279`) does not reload it: the node works
  with the old credentials, or the old limits, until the next save. `Converged` sets
  exactly these clients apart (`overtaken`).
* The default of `BurstSize` is 300 in `plugin.json` and 1000 in `SetDefaults`
  (`config/configuration.go:64`); the error about a client secret's length says 200
  where the limit is 100 (`config/configuration.go:107-108`).

## 7. Plan

Done: `WatchChannel` and `ChangeFeed` first, because delivery is what users see of the
plugin and what races most; then `OAuthConnect`, `RefreshJob`, `FileActivity`,
`RateLimit` and `FileCreation`; then `Uploads`, `Texts`, `PluginConfig`, and
`Account`, which composes the first with the account; then the proofs, of every
safety property, for which `parseCommand` became the steps of its loop.

Next, in this order:

1. Two wizards on one node, as an instance that shows the torn pair of section 6.

## 8. Not modelled

Texts of posts and dialogs, and with them `MarkdownToHTMLEntities`, a table of replacements
(it leaves `&` alone); opening the creation dialog (`handleCreate`), which asks Google
for the sharing policy and changes nothing; the HTTP router and its middlewares, except
for the 60-second context and the recovery from panics; encryption itself (opaque: which
key, and that it may fail); the bodies of the calls to Google; generated mocks; the web
application, which opens dialogs; build and release tools.

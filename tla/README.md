# A verification of spring-boot-web-frame

The repository is a small web application: Jetty and Spring Boot, a login
against a table of accounts, sessions kept in an in-memory cache with a
background task that purges it, helpers to export Excel files, to call REST
services and to reach the database; and the browser side of it, an
administration theme with page scripts and plugins of its own. It has no tests
beyond a placeholder. The modules beside this file model its own logic; the
frameworks it stands on are modelled only as far as its code relies on them.

Java paths below are relative to `src/main/java/com/system`, scripts to
`src/main/resources/static/js`.

## The system

### The server

| part | state | operations | interacts with |
|---|---|---|---|
| local cache (`common/LocalCacheService`) | a `ConcurrentHashMap` of objects with an expiry date, a read-write lock | `set`, `get`, `delete`, `getMap` | called by the login and the interceptor, walked over by the expire task |
| expire task (`task/LocalCacheExpireTask`, `task/TaskManager`) | an executor of two threads | `run`, every 60 seconds once `main` has scheduled it | reads the map without the lock, calls `delete` |
| filter and context (`filter/SystemFilter`, `auth/AuthContextHolder`) | an `AuthContext` in a `ThreadLocal` | `init`, `get`, `destroy` | first and last on every request; the context is read by interceptor and exception handlers |
| interceptors (`auth/interceptor`) | none | `preHandle`, on `/` (cookie) and on `/user` (log only) | look the token up in the cache, put the user into the context, throw |
| login and pages (`web/page/IndexViewController`, `service/UserService`) | none | `GET /login`, `POST /login`, `/` | query the accounts, set a token in the cache, answer a cookie |
| exception handling (`config/SystemExceptionHandler`, `config/RestExceptionHandler`, `web/ErrorViewController`) | a fixed table of views | `doResolveException` in the order 0, 99, 100 | asked by Spring's dispatcher |
| accounts (`domain`, `persistence`) | the table `system_user` | `findByLoginNameAndPassword`; nothing in the application writes it | the login |
| Excel export (`util/ExcelExportUtils`, `util/ExcelDataBean`) | a workbook that is filled | `exportToExcel`, `fillAllSheet`, `fillSheet` | the jxl library, the response |
| REST client and pools (`http`) | two pools of connections | `execute`, for GET, POST, PUT and DELETE, with retries | remote services; nothing in the application calls it yet |
| batch persistence (`persistence/base`) | the database | `save`, `update`, `delete` of one or many | JPA |
| roles (`enums/UserRole`), conversions (`util/CommonUtil`) | none, a cache of JAXB contexts | splitting and merging a bit mask, JSON, XML | - |
| wiring (`config`) | none | - | - |

What is hard here: the threads of Jetty's pool (up to 200) are reused, so that
what a request leaves behind in a `ThreadLocal` meets the next one; they share
the cache with each other and with the expire task, which takes the lock only
for its deletes; dates are computed, compared and purged at different times on
a clock that need not be monotonic; exceptions leave a request at every stage.

What makes each part correct:

- the cache is atomic to its callers, never answers an object after its date,
  and its lock is free again after every call;
- the task purges what has expired, and nothing that has not;
- a request sees its own context, with its own id and the user of its own
  cookie, and leaves none;
- a token belongs to the account it was opened for, until its date;
- an account that is disabled is not served;
- every request is answered;
- each exported row is on exactly one sheet, in order;
- a remote call that returns was answered, none that may change things is
  repeated, and every one gives back its connection and its stream.

### The browser

Each page runs in one thread, but what happens in it is far from sequential:
clicks, resizes, timers, animations and the replies of the server come in an
order nobody chooses, and handlers read the page to find out what others did.

| part | state | operations | interacts with |
|---|---|---|---|
| notices (`plugins/jquery.jgrowl.js`) | a queue, the notices in the page, their timers and animations, the closer | create, render, close, update every 250 ms, startup, shutdown | the page's callbacks, the mouse |
| dialogs (`plugins/jquery.alerts.js`) | the dialog, the overlay, a resize handler | alert, confirm, prompt; answers by button and key | callbacks that open the next dialog |
| pickers of colors (`plugins/colorpicker.js`) | the fields and swatches of each picker, handlers on the document | drags, typing, submit, restore, show, hide | other pickers on the same document |
| pie chart (`plugins/jquery.flot.pie.js`) | the slices, the canvas, the list of lights | process, draw with retries, hover, click, redraw the overlay | flot |
| scroll bar (`plugins/jquery.slimscroll.js`) | bar, content, timers that make it fade | wheel, drag, enter, leave | content that changes its height |
| media queries (`plugins/css3-mediaqueries.js`) | sheets being fetched, cached lists, the styles added | load, parse, test, add, resize with a timer | the server, scripts that add styles |
| header and navigation (`custom/general.js`, `custom/blog.js`) | boxes, drop down, menus, the part shown | bell, user, tabs, menu items, resizes | the server |
| layout (`custom/general.js`, `productlist.js`, `dashboard.js`, `calendar.js`) | where elements are | resizes | one another, by the page |
| tables and posts (`custom/tables.js`, `custom/blog.js`) | rows, check boxes, quick views | check, delete, quick view | the server, the dialogs |
| inbox, pagination, chart tooltip (`custom/messages.js`, `elements.js`, `charts.js`) | boxes and tools; current page; the tooltip | clicks, moves of the mouse | - |

What makes each part correct:

- notices appear in their order, no more than the pool, go once, and not while
  they are read;
- a dialog is answered once, the next one survives the end of the handler that
  opened it, the page is covered exactly while one is up;
- pickers that are shown can be hidden, no drag outlives its button, the fields of
  a picker show its color but where keys have been at work, and converting a color
  hardly changes it;
- slices stand for the series, the pie is in its canvas or a message says so,
  what is lit is what the pointer is on;
- the bar stays in its panel and in step with the content, is not taken from the
  mouse that has it, and goes when the mouse has gone;
- styles are those of the window, and the page comes back to the screen;
- the header shows one thing at a time, menus and layouts come back from every
  resize as they were, the page shows what is marked as current;
- one quick view at a time, that of the last click, next to its row; selection
  and check boxes agree; tools follow the selection.

`PROJECT.json` lists under `hazards` where in the code each of these could go
wrong.

## The modules

| module | models |
|---|---|
| `AtomicCache` | the promise of the cache: an atomic map with expiry dates |
| `LocalCache` | `LocalCacheService`, its lock with its queue, the callers, `LocalCacheExpireTask` with its weakly consistent iterator, the wall clock |
| `SessionStore` | the promise of the login: sessions opened once and never removed |
| `WebSession` | a request from filter to filter on the pool threads, over an instance of `LocalCache`; the accounts and the browsers outside |
| `SessionRestart` | `WebSession` on a server that may stop between any two steps |
| `ExcelExport` | `exportToExcel` and `fillAllSheet` |
| `RemoteCall` | the promise of the REST client: what a result and a failure stand for |
| `RestClient` | `RestClient.execute`, the two pools, the retry handler as `HttpClientFactory` sets it up |
| `JaxbContexts` | the shared map of `CommonUtil.getJaxbContext` |
| `NoticeBoard` | the promise of jGrowl: a first-in first-out board with a pool |
| `JGrowl` | `jquery.jgrowl.js` with the callbacks of the page, the mouse and the animations |
| `AlertDialogs` | `jquery.alerts.js` |
| `SlimScroll`, `ColorPicker`, `ColorSpace`, `FlotPie`, `MediaQueries` | the other plugins |
| `HeaderBoxes`, `HorizontalNav`, `SideMenu`, `Responsive` | the header, the menus and the layout |
| `QuickView`, `BlogPosts`, `MailInbox`, `Pagination`, `ChartTip` | the scripts of single pages |
| `TableRows` | the rows of a table with what is inserted below them, as `QuickView` and `BlogPosts` use them |
| `Utilities` | `ExcelExport`, `RestClient` and `JaxbContexts` together |
| `Pages` | the page scripts together |
| `Widgets` | the plugins together |
| `LocalCacheProofs`, `WebSessionProofs`, `RestClientProofs`, `UtilitiesProofs`, `JGrowlProofs`, `AlertDialogsProofs`, `PagesProofs`, `WidgetsProofs` | the proofs |
| `MC...` | the instances that TLC checks |

`WebSession` composes the request with the cache; `SessionRestart` adds the
crash to both. The other components do not interact, or only through what one
of them is told by a user. `Utilities`, `Pages` and `Widgets` therefore put
several of them into one specification: a variable that never changes
(`utility`, `page`, `widget`) names the one a behaviour is about, the others
stay as they were initialised. Nothing is gained by interleaving them and nothing
is lost: each part is explored as it would be alone. The same component may be
there twice, under other conditions: the header for a user who clicks at any
time, for one who waits for the server and for one who shuts the box from outside;
the table for one who clicks at any time and one who waits; the panel with a
content that changes and with one that does not (`"fixedPanel"`). `Running` says
which plugins a run looks at. The modules `MCUtilities`, `MCPages` and
`MCWidgets` only give values to the constants, so that what is proved of the
three modules is proved of what TLC checks.

### LocalCache

A call is cut at the points where another thread may come in. `set` computes
the date (`SetCall`), gets the write lock (`SetLock`), puts and unlocks
(`SetPut`); `get` gets the read lock, reads the map, and reads the clock
(`GetCall`, `GetLock`, `GetRead` or `GetAbsent`, `GetCheck`); `delete`
likewise. `item` is the object a call has in hand: built before the lock in
`set`, read before the clock in `get` and in the task.

`ReentrantReadWriteLock` is external. It is modelled as the non-fair lock it
is: `queue` holds those who wait, a writer that arrives may overtake them, a
reader that arrives waits when a writer is first in the queue.

The iterator of the task is modelled by what `ConcurrentHashMap` promises:
`todo` are the entries it must still visit; an entry put meanwhile may be
visited or not; an entry removed meanwhile may be visited with its old object
(`removed`, one entry for each key), because the iterator reads ahead.

`ImplementsAtomicCache` maps `entries` to `map` and the question a thread has
open to its argument while it is inside `get`. `set` takes effect at `SetPut`,
`delete` at `DeleteRemove`, `get` at `GetAbsent` or `GetCheck`.

### WebSession

`stage` says where a pool thread is with its request:

    idle -Accept-> cookie -> lookup -Authenticate-> render -> finally -> idle
                   query  -> issue -> store --------^
                   any exception -> resolve --------^

`Accept` is `SystemFilter` up to the handler, with `AuthContextHolder.init`,
which keeps a context it finds; `Finish` is the filter's `finally`. Between
`cookie` and `lookup` the thread is inside `LocalCache`'s `get`, in `store`
inside its `set`: the cache is an instance of `LocalCache` on the same threads,
with the tokens as keys, what the database said of the account at login as
values, and a clock that is not set back. `QueryFails` and `RenderFails` are
the exceptions of the database and of the view. Only `/` passes the cookie
interceptor, so that the prefix for skipping authentication is never looked at
with effect. `SystemExceptionHandler` answers every exception, hence
`RestExceptionHandler` behind it is never asked.

`SetStatus` is somebody who changes an account. Browsers hold the tokens of
the responses that were rendered (`jar`) and may send one, none, or a value of
another server (`Stranger`). A random UUID is modelled as the number of the
request that drew it. `requestId` likewise.

`SessionRestart` adds `Restart`: everything in memory is gone, wherever the
threads were, and the accounts, the cookies of the browsers and the clock stay.
`stale` are the tokens of earlier runs. The numbers of requests go on, since
they stand for random UUIDs.

History variables: `sessions` records what was stored for a token, `barred`
the users who have been disabled for as long as a request has been running.
No action reads them.

### ExcelExport

One round of the loop in `fillAllSheet` is one step, so that the position each
new sheet is given can be compared with the workbook as it is then.
`createSheet` of jxl is external: a position behind the last sheet appends.
`beans` includes null rows and null or empty headers. A bean without a header fails
on the sheet that has just been created for it (`FailBean`), which nobody sees:
the workbook of a failed export is not written.

### RestClient

`stage` follows `execute`: `lease` (waiting for a connection), `send`,
`receive`, `read`, `finally`. `Unformatted` is the `String.format` before the
`try`, after which nothing is cleaned up; `Unbuilt` is everything that fails
before a connection is asked for; `Failure` is the `catch` block, whose own
`String.format` may throw. `Finally` closes the stream of the body and frees
the connection if it is still held.

The HTTP client is external and modelled as it is configured: a pool of
`maxConnections` for each client, no timeout for waiting for a connection, no
redirects, no credentials, and `DefaultHttpRequestRetryHandler(maxRetry, false)`.
`GiveUp` is always possible, since a refused connection, a timeout and a TLS
failure are never retried; `Retry` is possible as long as the handler allows
it. A request counts as delivered when it has been written whole: whether the
service then acts on it at once, later or not at all makes no difference to the
caller. A request of which only a part was written counts as not delivered.

`ImplementsRemoteCall` hides the pool, the attempts and the reading. It maps a
call to open while `execute` runs. The field `sendSuccess` of a result is not
modelled: it is true in every result that is returned, and lost with the result
when the call fails.

### JaxbContexts

`get`, the building of a context and `putIfAbsent` are steps of their own;
`local` is the local variable `jaxbContext`, which is returned whether or not
the map kept it. Building may fail, for the classes of `Broken`.

### The plugins

`JGrowl` gives each notice a `stage` (new, queued, in the page, gone) and a
queue of animations `fx`, the one of jQuery; `life` says whether its time is
up. One tick of the interval is one action, `Update`: it closes what is
expired, renders one notice if there is room, and looks after the closer. `pause` is the data `jGrowl.pause`,
which `MouseOver` and `MouseOut` set on all notices of the container. `NoOpen`,
`NoClose` and `Keeps` are messages whose callbacks return false.
`ImplementsNoticeBoard` maps the queue to what waits, the notices in the page
to what is shown.

`AlertDialogs` counts the containers, overlays and handlers that are in the
page, as nothing in the code keeps two of them from being there. The callback
runs inside the handler of the button, so that `Press` is one step, with the
dialog it opens.

`SlimScroll` keeps pixels: the bar's height and place and the content's offset
are computed as the script does. A timer whose number was overwritten is an
orphan, which runs and cannot be cancelled. A timer looks what the mouse does and
starts a fade; the fade ends in a step of its own (`Faded`), and in between the
mouse may come onto the bar, which does nothing about the fade, or onto the panel,
whose `fadeIn` brings the bar back. `Position` is jQuery's `position()`, which
has no answer for a bar that is not displayed: what it says then is how far the
page is scrolled, one of `PageTops`.

`ColorPicker` treats colors as names and has the handlers on the document, by
picker and kind; an event runs those that were bound when it began. What is typed
(`TypeIn`) and what is read after a key (`KeyUp`) are different things: the key may
be the Tab that came from another field, and reading fills no field. A field is
filled when its change event comes (`Change`), which it does only when it is left
with another value than it had when it got the focus; otherwise it is just left
(`Leave`). `editing` is the field that has been typed in, for as long as that
event may come.

`ColorSpace` has the arithmetic of the conversions, with exact fractions where the
script has floating point. Where the two could differ the outcome is a choice of
each conversion: a tie may be rounded either way (`Ties`) unless it was computed from
whole numbers, and a field that shows a whole number by division may be read as the
one below it (`Truncated`).

`FlotPie` has the slices, and lengths in small units; how large a label turns
out is a choice, and `Options` the set of settings a pie may be drawn with, tilted
ones and ones that do not listen to the moves of the mouse among them. The vertical
offset, which the script does not keep in the canvas, and radii in pixels are left
out: no page sets them. `MediaQueries` has the requests, which are sent at once and
answered in any order, in time or later than the script waits, the callbacks that
wait for the last of them, the lists that are cached, and the queries, which are
evaluated as the script evaluates them; sheets and lists are kept as sets, since
their order says nothing here, and `threshold` is the tolerance of the browser
for a changed size. The code asks for two widths: that of the window
(`innerWidth`) to see whether it was resized, and that of the page (`clientWidth`)
to evaluate a query. They differ by a scroll bar (`Viewport`, `Client`), which comes and
goes with the length of the page (`Overflow`) and tells only Internet Explorer, where
both are the second. `AddedAsWindow` therefore lets a sheet be the one of the
page with or without its scroll bar.

### The page scripts

A post to the server is in `pending` (or `unanswered`, `due`, `awaited`) until
its reply, which may come at any later time and, where the script has several,
in any order. What a script looks up in the page when the reply comes is looked
up by the model then. `Patient` users wait for the reply; some promises hold
only for them, as said below. A fade is a state of its own where its end runs
a callback that something may come before (`fading`, `leaving`), and one step
with its cause elsewhere. Users click anything that is visible.

## The runs

| run | question | instance |
|---|---|---|
| `cache_safety` | is the cache atomic, whatever the interleaving? | 2 callers and the task, 1 key, 2 values, ttl 0 and 1, clock 0..1 that may be set back |
| `cache_liveness` | do calls return, is what expired purged? | the same with 1 value, no clock set back |
| `cache_race` | does the task delete only what has expired? It does not | 1 caller |
| `session` | contexts, live sessions, the promise of the login, is every request answered? | 2 threads, 1 user, 2 requests for any page, clock 0..2 |
| `session_restart` | is a cookie of an earlier run worth anything? | 1 thread, 2 users, 3 requests, 2 restarts at any point, clock 0..1 |
| `session_disabled` | is a disabled user rejected? No | 1 thread, 2 requests |
| `utilities` | rows, connections, streams, contexts; does every remote call end? | 3 beans of up to 5 rows, 2 to a sheet; 2 callers, 1 connection for each client, 2 retries; 3 threads and 3 classes, one of them broken |
| `excel_empty` | is every sheet needed? No | 1 bean of 2 rows |
| `pages` | does what the page shows agree with what was asked for? | each page script, in the instance of `MCPages` |
| `widgets` | the promises of the plugins, under hostile conditions | each plugin, in the instance of `MCWidgets`; 4 messages, 3 resizes |
| `widgets_calm` | do notices, the bar, the styles and the page get where they should? | 3 messages, 2 resizes, options that stay |
| `notices_twice` | is a notice closed once by the interval? No | 3 messages |

Bounds of the server. Entries of different keys meet only in the iterator and
the lock, and the lock does not know keys: one key with two callers and the task
gives every pair of conflicting calls; the sessions have two keys and more.
Clock 0..1 has an object before its date, at it, and, with the date -1, after
it; 0..2 has all three for one ttl. Two requests on two threads are a login and
a use of its token beside it or after it, or two logins; the second user, and a
third request after a restart, are in `session_restart`, and the theorems below
have no bound. Two rows to a sheet and five rows give none, one, two and three
sheets, full and partly full; the position of a sheet runs ahead of the workbook
from the third sheet on. One connection and two callers is the smallest pool
that one can empty for the other; the pools of the two clients do not meet.
`MaxRetry` is the value of the code. Three threads are two that race and one that
comes later. `MaxNow`, `MaxRequests`, `MaxRestarts`, `MaxRows`, `MaxBeans` and
`MaxCalls` are the only bounds; `Pages`, `Changes` and `Calls` say which inputs
a run offers.

Bounds of the browser. `MaxPosts` and `MaxViews` bound the requests that a page
sends: three are one that is answered late, one that is answered in between, and
one more. Widths are every threshold and the pixel below it. Two pages to sixteen
are bars whose ends differ, with pages in between. Two rows and two posts suffice for one that
is above and one that is below; two pickers for one that hides the other; two
drags for one whose button was released elsewhere. The samples of `ColorSpace`
are ten values for each channel, a thousand colors, with their neighbours at the
ends and in the middle; `NearRGB` and `NearHSB` are the most a channel moves by one
reading of them. The page under a panel is at its top or scrolled. The charts have no series, one, equal ones, ones to
combine, zeros and a value that is no number. `MaxFx` bounds the animations that
wait for one notice, `MaxOrphans` the timers that cannot be cancelled, and
`MaxErrors` the messages of a chart.

Symmetry (of callers, values or colors) is used in safety runs only. The runs of
the utilities, the restarts and the widgets do not check for deadlock, since
exports end, budgets of requests run out and a page may be at rest.

Fairness. A thread inside a call or a request runs on; the executor runs the
task again and again, and `main` gets to schedule it. Nobody has to call, to
send a request, or to let the clock move. A thread that waits for the lock is
given strong fairness, since a writer that arrives may overtake it and the lock
is then free again and again but not continuously; the queue is what makes this
enough: without it overlapping readers would keep a writer out for ever. A remote
call runs on because the client has a timeout for connecting and one for the
socket; a caller waiting for a connection is woken when one comes back, but may
find it taken, hence strong fairness there too. In the browser, timers fire,
animations end, fades among them, and intervals tick (weak fairness); each request for a style
sheet is answered; and a mouse button that is held is released some time, strongly fair
since the drag goes on meanwhile. Nothing is assumed of what a user clicks.
`NoticesComeAndGo` says what it needs of the reader: that the container is in
the end neither shut down nor held by the mouse.

### What holds only under a condition

These were found while modelling; the condition is part of the instance or of
the property, and the source is given for who wants to change the code.

- the quick view of a table: a reply hides its row although its view has been
  replaced (`tables.js:107`). A hidden row is replaced by its view for users who
  wait for each reply (`page = "tableWaiting"`);
- the drop down of the user and the notifications are both there when the drop
  down is opened while the server is asked (`general.js:45`); the tab marked in
  the box is not its list once the bell has hidden a box with the same ids
  (`general.js:49`); a click inside the box shuts it (`general.js:72`);
- the menu bar shows the part of another item when replies overtake each other
  (`general.js:151`): the instance has them in order;
- a pagination bar with a single page enables buttons that lead nowhere
  (`elements.js:218`): the bars have two pages and more (`SeveralPages`);
- the scroll bar reaches out of the panel when the content becomes shorter
  (`jquery.slimscroll.js:199`): the content grows or stays (`NoShrinking`);
- a bar that the mouse comes onto while it fades, or that is dragged then, is
  hidden in use: the timer looks at the mouse when the fade starts
  (`jquery.slimscroll.js:215`) and coming onto the bar stops nothing (`:106`).
  `BarInUseStays` is about bars that do not fade yet;
- a bar left by the mouse at the edge of the window stays, as only the panel and
  the rail start timers (`:99-120`): `HideIsDue` and `BarGoes` have the mouse leave by
  one of these;
- a drag leaves the content one event behind the bar (`:94`, where the bar
  has not moved yet), and a wheel over a panel whose bar is hidden makes bar and
  content jump to where the page is scrolled (`:148`): `KeepsInStep` says that nothing
  else parts them, and that the wheel brings them together when the bar can be seen;
- a key that changes nothing, like the Tab that moves to a field, makes a picker read
  its fields without filling any (`colorpicker.js:61`, bound at `:400`). Fields for hue, saturation
  and brightness show fractions and are read as whole numbers, so that a Tab there
  changes the color and the swatch, while the other fields show the old one until the next
  change. `OnlyKeysPart` says that nothing but keys in a field does this;
- the pie is replaced by the error when its last attempt fits
  (`jquery.flot.pie.js:293`), and data that is set again has no percentages (`:175`);
- two notices may be without a closer while another one fades; a notice rendered
  while the mouse rests on another is not paused with it, and shutdown leaves the
  closer (`jquery.jgrowl.js:272`, `:223`, `:324`);
- a script that turns `repositionOnResize` off while a dialog is up leaves its
  handler (`jquery.alerts.js:208`): `DialogsAreCentred` has options that stay
  (`~MayToggle`);
- a reply (`css3-mediaqueries.js:119`) that is later than five seconds is
  not counted, so that the parse never ends and the page stays off the screen: `PageComesBack`
  assumes replies in time, while `StylesFitWindow` has late ones.

### Disagreements

- **A disabled user is served** (`session_disabled`). `SystemCookieInterceptor`
  tests the status of the object stored at login. `UserService.userLogin`
  stores nobody who is disabled, so the test never succeeds and
  `UserDisableException` is never thrown.
- **The task may delete a fresh entry** (`cache_race`). It compares the date of
  an object it has read and then deletes by key. The login never sets a key
  twice, so sessions are not affected (`LiveSessionIsKept`); any other use of
  the cache that refreshes an entry is.
- **A sheet without rows** (`excel_empty`). The number of sheets is computed
  from the number of rows plus one.
- **A notice is closed twice by the interval** (`notices_twice`). Closing pauses
  the notice, but a mouse that leaves a neighbour clears that for every notice,
  so that the interval triggers the close events once more while it fades. It
  still leaves the page once, and its close callback is called once (`ClosedOnce`).

One more thing that no document contradicts: `LOCAL_CACHE_KEY_LOGIN_EXPIRE` is
`24*60*60`, but `set` adds it to milliseconds, so a session lasts 86.4 seconds.
And `ExcelExportUtils` resets the response and sets its headers before it refuses
an empty list of beans (`:100`), so that the error page goes out as a spreadsheet.

## The proofs

TLC agrees with every formula before it is proved; the theorems hold for every
value of the constants that satisfies the named assumptions. Every invariant the
runs check, and every action property but `ColorsAreKept`, is the statement of a
theorem.

A composed module is proved about part by part: the invariant of each part is shown
to be kept by a step of that part, and one lemma (`NextParts`, `PageStep`,
`WidgetsStep`) says that a step of the whole is a step of one part and leaves the
others alone. What is proved holds beside the others, whatever they do.

### The cache

`LocalCacheProofs` proves for every set of threads, keys and values, every set
of times to live and every way of setting the clock back, from the assumptions
that the task is not a caller and that null is nobody and nothing:

- `TypeCorrect`: `Spec => []TypeOK`;
- `ReadsAreStable`: `Spec => []ReadIsStable`;
- `Refinement`: `Spec => ImplementsAtomicCache`.

The inductive invariant `IInv` adds two parts to these. `LockInv` says that the
lock is held by exactly those whose program counter is between lock and unlock,
and that a writer is alone: this is why a put or a remove finds no reader
between `GetRead` and `GetCheck`. `ArgumentInv` says that a call has its key and
its object where it uses them, and that a `get` under way has no answer yet,
which the case `GetAbsent` of the refinement needs. There is one lemma for each
group of actions and one step for each action. The refinement then needs no
more than the invariant: a step either leaves map, clock, answers and questions
alone or is one action of `AtomicCache`.

### The utilities

`UtilitiesProofs` proves of the export, for every size of the sheets, every
number of beans and rows, with null rows and headers among them:

- `TypeCorrect`: `Spec => []TypeOK`;
- `NoSheetBetween`: `Spec => SheetsAreAppended`;
- `RowsAreKept`: `Spec => []EveryRowOnce`.

Its invariant says why the careless count of sheets does no harm
(`PositionInv`: it never falls behind the workbook, and is one short of it only
while a bean is being filled), where the pages of the bean in hand end
(`PageInv`), and that the rows before that end are on a sheet (`CoverInv`).
All this is `FilledInv`, which holds as long as no export has failed: a failed one may
end with a sheet that holds no row (`FailBeanInv`). `SheetNumProperty` is the arithmetic of
the number of sheets, `Appended` the
case of `createSheet` that ever occurs. That no sheet starts behind its rows is
arithmetic of these parts (`TypeStep`).

Of the three utilities together it proves `UtilitiesTypes`, `CallsCleanUp`,
`CallsAreRemoteCalls`, `ContextsAreTheirOwn` and `ExportIsWhole`, from the
assumptions of their modules. What is said of calls is that of `RestClientProofs`,
of which it takes an instance. The contexts have an invariant of their own: `CountInv`
numbers them as they are built, `MapInv` says that the map has contexts of their
class only, and `ThreadInv` what a thread knows at each place. Its point is that
a context which was there when a call began is there when the thread looks, so that
one who builds found none; who loses the race of `putIfAbsent` returns a context of
the right class, though not that of the map.

### The sessions

`WebSessionProofs` proves, for any threads, users, requests and lifetimes, from
`SessionAssumption` and `NullAssumption`: `TypeCorrect`, `ContextsAreOwn`
(`Spec => []ContextIsOwn`), `LiveSessionsAreKept` and `Refinement`
(`Spec => ImplementsSessionStore`).

The argument does not use the lock of the cache at all. A token is drawn once
and its session is stored once, so that whatever is read, by a request or by the
iterator of the task, is the session that was stored for that token or nothing.
`NumberInv` says that requests, and so tokens, are not shared, `TokenInv` that
the map and a pending `set` agree with `sessions`, `LookupInv` that a `get` under
way has in hand the session of its own cookie, `SweeperInv` that what the task
is about to delete is a session that has expired, and stays so because the clock
does not go back; `PlaceInv` ties the stage of a request to the call of the cache
it is inside of. From these, `UserInv` makes a context its request's own, and the
purging of an expired session a stutter of the store.

Its second part stands on this: `RestartTypeCorrect` and `StaleCookiesLogOut`,
from `RestartAssumption`. A step of `WebSession` keeps the invariant of above, a
`Restart` establishes it anew, and two parts are added: no session is stored for
a token of an earlier run (`TokensInv`), and a request with such a token is on
the path to the login page and has no user (`StaleInv`).

### The REST client

`RestClientProofs` proves, from `RestAssumption` (finitely many callers),
`TypeCorrect`, `ConnectionsAreKept`, `StreamsAreClosed` and `Refinement`, that
`RestClient` implements `RemoteCall`. `PoolInv` counts: what is free and what is
held make up the pool, for each client; its steps need the cardinalities of the
sets of holders with one caller more or less. `StageInv` says where a connection
may be held and how many deliveries there may be at each stage, which is why a
retry never repeats a delivered POST and a result was delivered at least once.
Run `utilities` checks the same definitions in its instance, under the names
`CallCleansUp` and `ImplementsRemoteCall`.

### The notices

`JGrowlProofs` proves, for any messages, pool and callbacks, `TypeCorrect`,
`ClosesOnce`, `ReadsInPeace` and `Refinement` (to `NoticeBoard`). `QueueInv` says
that the queue holds each waiting message once, `MouseInv` that what the mouse is
on is paused and in the page, and `CloseInv` what a notice that leaves has been
told so far.

### The dialogs

`AlertDialogsProofs` proves, from `AlertsAssumption`: `TypeCorrect`,
`CoveredThroughout`, `AnsweredOnce` and `FollowUpStays`, whatever scripts do to
the option, and `HandlerStays` and `StaysCentred` where none turns it off.
`DialogInv` says that what is up is one dialog, opened and not answered, with one
overlay; `HandlerInv` that its handler is bound once. The runs check the same
definitions under `DialogsAreAnswered` and `DialogsAreCentred`.

### The page scripts

`PagesProofs` proves every invariant and action property of run `pages`, from the
assumptions `Pages` states: `PagesTypes`, `HeaderIsConsistent`,
`NavigationStaysWhole`, `ResizedAsLoaded`, `TableStaysConsistent`,
`PostsStayConsistent`, `InboxIsConsistent`, `BarsKnowEnds` and `TipsFollowPointer`.
There is one inductive invariant for each script:

- `HeaderInv`: boxes and replies to come are no more than the posts; for a user
  who waits nothing is asked for while a box or the drop down is there
  (`TakesTurns`), and for one who shuts the box from outside each box is seen, with
  the list of its tab (`ListsOfTabs`);
- `NavInv`: a menu bar has one of two forms, each a function of `Items`
  (`FormIs`), and the width says which; the current item has the part that is
  shown, or that of the last reply to come. `MenuForWidth` is the case of a resize;
- `MenuInv`: the labels are in the sub menus exactly while the menu is collapsed and
  go as they came (`LabelComesAndGoes`), and of what is open the pointer explains
  all but one (`OneOpens`);
- `LayoutInv`: what is moved is a function of the width;
- `QuickInv`: a quick view that is in the table is the one asked for last and next to
  its row, answered or waited for (`ViewsArePlaced`); for a user who waits the reply
  finds its quick view and no row is hidden before (`WaitsForView`);
- `BlogInv`: one form at most is seen, below its post (`OneIsSeen`); the type says what
  may be in the list, what is awaited and what may be checked;
- `InboxInv`: marks, tools and open lists need one another, so that their conjunction
  is the invariant; `ToolsFollowSelection` is its best part;
- `BarInv`, `ChartInv`: the current page is one of the bar; the point remembered is
  the one the pointer is near.

The specifications of patient users are shown to take steps of the one who clicks at any
time (`SlowStep` and the steps of the header), so that each handler is treated
once. `remove()` and `after()` of jQuery are proved to keep rows apart and to
keep neighbours together where nothing comes between them (`WithoutRows`).
`SeveralPages` is used for the bar only.

### The plugins

`WidgetsProofs` proves every invariant and action property of the widgets runs but
`ColorsAreKept`, from the assumptions `Widgets` states: `WidgetsTypes`,
`DialogsStayAnswered`, `DialogsStayCentred`, `BarStaysConsistent`,
`PickersStayConsistent`, `PieStaysConsistent` and `StylesStayFitting`.
`NoticesAsAlone` says that the behaviours of `Widgets` are behaviours of `JGrowl`, to
which the theorems of `JGrowlProofs` apply; `AlertDialogsProofs` is used through
an instance. The others have invariants here:

- `ScrollInv`: the bar may be higher than the content asks for and never lower, as
  it was computed for a content that has only grown since (`NoShrinking`; without it
  this is false, and so is the property), and a bar that nobody uses fades or has a timer.
  That no timer makes a bar fade that is used needs no invariant (`UsedBarStays`).
  `FixedInv`: where the content stays, the height is up to date, so that showing the
  bar does not part it from the content (`FixedStaysInStep`);
- `PickerInv`, which is `ColorsInv`, on colors, swatches and fields, and
  `HandlersInv`: the document hides one picker at most, because the click that shows
  one hides the other, and one field at most is half typed. What a step does to
  the fields of a picker is `KeysPart`, what it does to drags `DragsEndTogether`;
- `PieInv`: the slices stand for the values of the setting they were made of
  (`IsSlices`), the list of lights is that of the pointer and nothing else, because a
  click is where the pointer is, or is all that is known of it (`LightFollows`), and a picture outside the canvas came
  with a message. `OwnParts` says what the loop that combines has made of the
  first values, and that the sums of the parts make up the total;
- `StylesInv`: while a parse goes on nothing is cached or added and a reply is due
  (`ParseInv`); the test of all lists waits for the parse or has asked for them
  (`TestInv`); a sheet is added as one of the windows asks for that the last
  resize that counted may have been about (`AddedInv`, `Remembered`), from which the present
  window is no further than the tolerance (`ResizeInv`, `WindowOf`);
- `SpaceInv`: the fields of a picker are fractions in their ranges, whichever way ties
  are rounded and quotients come out.

Recursive functions (the sums of values and the slices of the pie, the rows that
`remove()` leaves) cannot be taken by the induction theorems of the library, which
have an operator as a parameter. `SetInduction` and `NaturalInduction` state
induction for a set of numbers, from the least number outside it, and
`RecursionExists` that a recursive function on an interval is there and satisfies
its equation. Folds and `SelectSeq` stay out of reach, which is why the modules
write these loops as functions.

### Only model-checked

- Liveness, which under fairness is out of the prover's reach: `CallsReturn`,
  `ExpiredIsPurged`, `RequestIsAnswered`, `CallEnds`, `NoticesComeAndGo` and
  `TimersGetThere`.
- `ColorsAreKept`: how far a reading may take a channel is a number found by
  evaluating the conversions on the samples, not the result of an argument. That
  no reading makes a color brighter follows from `Round` being monotonic, and is
  not proved yet. What is proved are the ranges of the fields (`SpaceInv`).
- That the refuted properties of the four violation runs are false.

## Not modelled

- the formatting and conversion of dates, JSON and XML, cell contents and column
  widths, character encodings, response headers, logging: data without control;
- the wiring of beans, data sources and JPA: configuration of libraries;
- `BasePersistenceService`: each method hands its argument to JPA. What a batch
  leaves behind when one of its operations fails depends on the transaction of
  its caller, and the code has none;
- `UserRole`'s bit mask and `TaskManager.runTaskAtFixedTimePerDay`: functions that
  nothing calls;
- the dispatch to `/error` after an exception has left the filter, which shows a
  page without a context;
- the theme switch of `general.js`, whose behaviour is that of a cookie; the page
  scripts that only set up library widgets; `charCount`, `autogrow` and `cookie`;
- jQuery, jQuery UI, flot, fullCalendar, dataTables and the other minified
  libraries, which are external wherever a model needs them; templates and style
  sheets.

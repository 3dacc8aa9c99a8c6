# btc_trade: verification project

TLA+ models of the trading client in `src/`, TLC runs that check them on small
instances, and TLAPS proofs that hold for every value of the constants. Paths
below are relative to `src/` (the repository's root); line numbers are those of
the commit that was modelled.

## 1. The system

btc_trade is a desktop client for the coincheck exchange, with a command line
for it and for zaif. One process, one GTK main loop, one thread that matters:
every network call is a synchronous libcurl transfer made from a timer or a
signal handler, so a handler runs to its end before the next one starts. What
goes on meanwhile is the exchange: orders trade between any two requests of one
handler. Assertions are enabled in the build (the Makefile sets no `NDEBUG`), so
a failed assertion ends the program.

### Components

| Component | State | Operations | Talks to |
|---|---|---|---|
| http context (`src/json-response.c`) | header list, body buffer, tokener, document and its references, error code | add_header, clear_headers, get, post, delete, send, write callback, cleanup | libcurl, json-c; the API clients |
| auto_buffer (`utils/auto_buffer.c`) | memory, size, start, length | init, resize, push, pop, cleanup; `clear` in json-response.c, `add_fmt` in zaif.c | http context, both clients |
| coincheck client (`src/trading_agencies/coincheck.c`) | none of its own | 18 API functions in four classes: public, query, trade, withdraw | http context, credentials of its agency, callers' documents |
| zaif client (`src/trading_agencies/zaif.c`) | the buffer of fields of the running call | 10 API functions: public, query, trade | the same, auto_buffer |
| trading agency (`src/trading_agency.c`) | three key pairs, a reference to its configuration, http context, worker flags | new, free, load_config, get_credentials, run, stop | clients, app |
| ticker ring (`src/gui/coincheck-gui.c:588-697`) | circular array, start, length | init, append, latest history, cleanup | `update_tickers` writes, `draw_tickers` reads |
| order form (`src/gui/coincheck-gui.c:96-322`) | two rates, two amounts, two buttons | edits, selections of the book, clicks | `coincheck_new_order` |
| order session and history (`src/gui/order_history.c`, panel callbacks) | two lists, the trees that show them | place, cancel, refresh | coincheck client, exchange |
| shell and application (`src/shell.c`, `src/app.c`) | configuration document, agencies, flags, window, timeout sources, info bar | load_config, init, run, stop, cleanup, callbacks | agencies, GTK main loop, panel |
| order book view (`src/gui/coincheck-gui.c:437-556`) | two list stores and their selections | update | exchange, order form |
| chart (`src/gui/draw_tickers.c`, `coincheck-gui.c:324-396`) | entries, surface | update_tickers, draw | ticker ring |
| command line tools (`tools/coincheck-cli.c`, `tools/zaif-cli.c`) | command, parameters, exit code | btc_buy, btc_sell, cancel_order; queries that print | the clients, the exchange |
| websocket prototype, Berkeley DB tests, vendored crypto, utilities | | | |

### How they interact

```
 app --> shell --> timers and signals --> panel callbacks
                                            |         |
                 order book -> order form, trees     ticker ring -> chart
                                            |         |
    command line tool -----------> coincheck client (zaif: command line)
                                            |
                       trading agency: credentials + one http context
                                            |
                        auto_buffer, json tokener, libcurl --> exchange
```

All callbacks of one agency share one http context, one header list and one
parsed document. A document is reference counted: the context keeps one
reference until the next request, each caller gets its own. The rows of the
trees hold pointers into lists that the next refresh frees.

### What is hard here

* *State that outlives a call*: headers of a call that failed, a half-parsed
  prefix in the tokener, a document somebody still holds, memory libcurl reads
  while it sends (it does not copy `POSTFIELDS`).
* *Steps in an order nobody tested*: the exchange trades, and the command line
  tool places and cancels, between the two requests of a refresh; a request
  succeeds and its answer is lost; timeouts are dispatched after the window was
  destroyed; several one-shot timers share one info bar.
* *Stale state on screen*: sensitivity of a button that an edit did not
  re-judge, the two sides of a book that is replaced every second, rows pointing
  to freed entries, a chart of an earlier market.
* *Boundaries*: the ring wraps for the first time after a million samples (11.5
  days); sizes at multiples of the allocation unit.

Every hazard is listed at its line in `PROJECT.json` with the properties that
would catch it going wrong, or with the reason why none covers it yet.

## 2. Modules

| Module | Models | Abstract specification it implements |
|---|---|---|
| `HttpJson` | http context | `JsonExchange` |
| `CoincheckApi` | coincheck client, composed with `HttpJson` | the specification of `HttpJson` |
| `ZaifApi` | zaif client, composed with `HttpJson` | the same |
| `AutoBuffer` | auto_buffer | `ByteQueue` |
| `TickerRing` | ticker history | `SlidingWindow` |
| `Chart` | `update_tickers` and `draw_tickers`, over `TickerRing` | |
| `OrderForm` | the operators and steps of the order form | |
| `OrderBook` | the book that is refreshed under the form, over `OrderForm` | |
| `OrderSession` | placing, listing, cancelling orders against the exchange | |
| `Cli` | the command line tool beside the panel, over `OrderSession` | |
| `Shell` | the main loop, its sources, the info bar | |
| `App` | main(): configuration, agencies, references, over `Shell` | |

`MC*` modules give the constants of a run; `*Proofs` modules hold theorems. In
each module the operators named `X_Something` next to an operator `X` are
plausible mistakes in the code of `X`: no specification uses them, they show
that each property would notice (`mutants` in `PROJECT.json`). A type invariant
is checked where an overflow or a wrong count would show in it; elsewhere it is
part of an inductive invariant that is proved.

### HttpJson

One variable per field of `http_json_context` and `json_response_context`, and
three ghosts: `held` (references the callers own), `doc` (for each object, the
requests whose bytes it was parsed from) and `lost` (documents overwritten by a
later one of the same response). `curl_easy_perform` is not atomic: it calls the
write callback once per chunk, so one request is `Request`, any number of
`Partial`, `Malformed`, `EndDocument`, `EndNull`, then `Fail` or `Succeed`.
`Request` contains the whole of `json_response_context_clear`. The early return
after a failed transfer (`json-response.c:238-241`, 286-289, 333-336), which
leaves the header list alone, is `Fail`. A header is a value of a parameter, a
chunk is what it does to the tokener, a byte is the request it answers.

* `OwnersCounted`: an object has at least as many references as owners (context,
  callers), so nothing is used after it was freed.
* `NoLeak`: it has *exactly* as many, plus one if a later document of its
  response overwrote it: the only leak of the code (line 169), stated rather
  than hidden.
* `OneResponse`: tokener prefix, buffer and document belong to the current
  request, whatever broke off before.
* `FreshDocument`: a document that more bytes may replace is not yet a caller's.
* `ImplementsExchange`: the refinement. Requests one at a time; a document
  handed out answers exactly the request just made; its memory is not reused
  while the caller owns it.

### CoincheckApi

`Call`, `Sign`, `Describe` (only the functions that post JSON), `Send`,
`Receive`, `Return` are the stages every API function goes through; the
functions differ in the credentials they ask for and in `Describe`. A header is
a key/nonce/signature triple of a class, or what describes a JSON body, and
carries the request it was made for. `Drop` and `Free` are the callers. URLs,
parameters, the HMAC and the nonces are abstracted: a nonce is the realtime clock
(`coincheck.c:65`), which may be set back, and nothing in the repository relies
on nonces that increase.

* `OwnHeadersAfterSuccess`: after a call that succeeded, the next one sends no
  header but its own: its class and its request.
* `SignedByOwnKey`: whatever failed calls left on the list, the last triple was
  made for this very request with the key of the running function's class; what
  stands before it is of earlier requests, what stands behind it describes this
  request's own body.
* `OutIsOwned`: the caller's pointer is set only if the call returned 0, which
  `update_balance` asserts, and is a reference of its own.
* `UsesHttp`: the client does only what its context offers, so everything shown
  of `HttpJson` holds inside it.
* `LeastPrivilege` fails, see section 4.

### ZaifApi

The same stages, with the buffer of fields in place of the nonce header:
`Call` (which includes `init_post_fields`), `AddFields`, `Sign`, `Send`,
`Receive`, `Return`. `post_fields` is what the buffer holds, or `NoFields` when
no memory is allocated. A header is a pair of a key class and the fields it
signs. `Return` stands for the cleanup in `send_request` and for the second one
in every function, which finds the buffer freed.

* `BodyIsSigned`: while libcurl sends, the memory it reads is allocated, holds
  what was written for this request, and the last pair on the list signs just
  that, with the key of its function.
* `OwnPairAfterSuccess`, `UsesHttp`: as for coincheck.
* `FieldsFreed`: no way through a call leaves the buffer allocated.

### AutoBuffer

The bytes of the memory by address, `size`, `length`, `start_pos`. A write goes
where the code's `memcpy` or `vsnprintf` goes, allocated or not, so `InBounds`
(the memory is what `size` says and holds everything stored) is violated by a
write that is too large. `EmptyAtZero`: an emptied buffer starts again at
address 0. `ImplementsQueue`: growth, the terminating NUL of a formatted line,
pops and clears lose, repeat and invent nothing. Assumed: no object exceeds half
the address space (so sizes do not wrap), `realloc` does not fail, lines of
`add_fmt` fit in `PATH_MAX` and are added to buffers that are never popped, as
in zaif.c.

### TickerRing

`ticker_history_append` with the arithmetic of the code; the reader as operators
`First`, `End`, `Contiguous`, `Copied` with its branches. `ImplementsWindow`: the
ring is the window of the last `HistorySize` samples, however often it wraps.
`ReadsLatest`: a read that starts before the end of the array copies the most
recent samples, in order and in bounds, in one part or in two. `AssertNeverFails`
fails, see section 4.

### Chart

`update_tickers` takes any document or none. `Read` is the reading of one
(`coincheck-gui.c:680-691`): each price by its own key, a missing one as 0,
whatever the others are; an error's document has none of them. The sample is
appended, the entries written and the chart drawn. `Drawing` is what
`draw_tickers` computes from the samples it is given: heights above the lowest
price, a scale that is a fraction, the title.

* `CurveInside`: no answer, however incomplete or contradictory, pushes another
  sample off the chart: the point of each sample whose own last price is between
  its own low and high lies between the lines of the lowest and the highest
  price. A sample whose document contradicts itself may be drawn outside; the
  code does not check.
* `ChartIsCurrent`: chart, title and entries show the latest sample, whatever
  answers failed, and skip none of the ring.

A chart that asks for part of a wrapped ring aborts (`AssertNeverFails`, section
4). The run of these two lets it ask for the whole ring, so that the reader's
assertion never stops it; `ticker_assert` shows where it does.

### OrderForm and OrderBook

`rate_changed` and `amount_changed` are the callbacks of the entries and spin
buttons, as the sensitivity they leave behind; `Select` is a selection of the
book with the callbacks that GTK emits for it (a value that is set again emits
nothing). Editing a rate calls nothing until return is pressed. `Submit` ends in
the assertion at the head of `coincheck_new_order`. `update_order_book` replaces
the rows of both trees by an answer, cut off at the depth, with the bars scaled
by the largest amount of either side; an answer without both sides, or a row
without both strings, ends the program (`update_order_book_aborts`).

* `OnlyValidOrders`: whatever stale sensitivity is left behind, no order leaves
  with a rate below 1 or an amount below the exchange's minimum. Amounts from
  0.001 to 0.004 pass the form (`coincheck-gui.c:107`) and are stopped by that
  assertion (`coincheck.c:307`, 0.005), which ends the program: `aborted`.
* `AskArmsBuy`: selecting an ask judges the buy button afresh.
* `OneAnswer`: both trees show one answer, also when a side of it is empty, cut
  off or followed by answers that did not arrive.
* `BarsComparable`: the bars of both trees have one scale and are never longer
  than the column.
* `BidArmsSell` fails, see section 4.

### OrderSession and Cli

A callback is a queue `todo` of steps; the exchange's `Fill` may come between
any two. A request is carried out or not and answered or not, independently.
`generation` stands for the allocation of the list of trades: a row that points
to an earlier one points to freed memory. Rates, sides and columns are left out.
The answer to one request is atomic at the exchange. `Cli` adds the commands of
the tool that change orders, one at a time, between any two requests of the
panel: how parameters become an order, the loop over the ids of
`cancel_order`, the exit code.

`sorted` puts every entry at its `Rank`, the number of entries that
`order_details_compare` does not put behind it, and `Parents` lists the entries
whose order differs from that of the entry before. The exchange gives times in
seconds and two trades of an order may share one; here all differ. Nothing rests
on it: entries with the same order and time are the same record, and
`SortedRearranges` (section 5) is about lists with any ties.

* `NoDoubleCount`: no unit of an order is listed as traded *and* as pending. It
  holds because the trades are fetched first; the swapped order violates it.
* `OpenOrdersListed`: an open order that had been accepted when the rows on
  display were fetched has no row for two reasons only. The exchange answered
  and refused its cancellation since that fetch (the code removes the row then
  too, `coincheck-gui.c:799`), which lasts until the next fetch; or the fetch
  failed, which leaves no row at all (`order_history.c:306-313`). A lost
  cancellation, or a lost answer to one, takes no row away. A listing keeps for
  this how many orders there were (`upto`), whether it was answered, and which
  of its rows a refusal took (`refused`).
* `DataPtrsLive`: between callbacks no row points to freed details, also after a
  refresh that failed.
* `OneParentPerOrder`: the trades of an order are under one parent, though
  orders trade in turns.
* `PostedAsGiven`: the tool never posts an order with rate and amount exchanged,
  however its parameters are named and ordered.
* `ExitZeroClosed`: when `cancel_order` ends with 0, every id was answered, and
  what it was told is closed is closed, although the panel cancels too.

### Shell and App

`stage` is where main() is; a callback is one action; `asked` says whose
callback last asked the exchange. After `gtk_main_quit` the loop still finishes
its batch, so callbacks may run after `on_destroy` and before
`gtk_main_returns`. Each message of the info bar has its timer. `App` reads a
configuration (with and without entries, names, URLs and credentials files, each
missing piece ending the program where the code asserts it), makes the agencies
in its order, takes the first one named coincheck, and counts the references to
the document and to its entries.

* `AsksOnlyAlive`: no callback asks the exchange once the window is gone, or with
  an agency that is not the configured one or is already freed.
* `ReferencesReturned`: every reference is given back before the program ends,
  and no agency outlives its entry.
* `WillBeHidden`: a visible message has its own timer pending.
* `Refreshed` (liveness): if every transfer ends, and window and switch stay as
  they are, each of the three sources asks again and again: none starves behind
  the others, and none was lost while the switch was off.
* `EndsWhenClosed` (liveness): closing the window leads to the end of main(). The
  window is closed between callbacks: while a transfer hangs it cannot be, and
  neither property says anything of a peer that never answers.
* `ShownFiveSeconds` fails, see section 4.

## 3. Runs

| Run | Question | Bounds, and why they suffice |
|---|---|---|
| `http` | Is memory, framing and ownership right over any mix of good, bad, empty and repeated responses? | 3 objects (one with the context, one with a caller, one lost or free), 3 requests of up to 3 chunks and 2 documents: a broken response can lie between two others |
| `coincheck` | What may one API call leave behind for the next? | every function, 3 requests, so a failed call stands between two others; 6 headers hold what three calls append, body descriptions included |
| `coincheck_privilege` | Does a query ever carry another key? (it does) | one function of each class, 2 requests |
| `zaif` | Is what is sent what was signed, and is it freed? | one of the five equal information functions and all others with every choice of optional fields, 2 requests, 2 pairs |
| `auto_buffer` | Are the bytes a queue, inside the memory? | units of 3 bytes, up to 7 stored, so pushes of 1 and 2 cross the end of a unit at every offset |
| `ticker_ring` | Is the ring a window, are reads right, and does the chart show the market? | 4 slots: reads before, across and behind the end of the array; a chart of 4 samples, 5 high; documents without prices, without a low, without a last price, with low and high exchanged, and two tickers that fit into that height together, while beside a zero the prices have to be scaled |
| `ticker_assert` | Can the reader's assertion fail? (it can) | 3 slots |
| `order_form` | What can be sent from a form with stale buttons, over a book that changes? | amounts on both sides of both minima and outside the spin button's range, 2 rates; answers with an empty side, with more rows than the depth, and with amounts that scale the other side |
| `form_bid` | Does selecting a bid judge the sell button? (no) | the same |
| `order_session` | Do lost requests, lost answers, trades and a second client in between show a wrong picture? | 2 orders of 2 units (partial fills, orders trading in turns), 3 refreshes (a failed one between two others), 1 command with up to two parameters or ids: 2.9 million states |
| `shell` | Does the program refresh while it should, stop when it should and return what it took? | 6 configurations: the shipped one, one with two agencies of the name, and one for each way to abort; 3 messages, interval 2, time up to 5: a message before, while and after the timer of an earlier one runs |
| `shell_bar` | Is a message shown for its five seconds? (no) | 2 messages |

Symmetry is used on objects only, in runs without liveness. Deadlock checking
is off where the bounds, an abort, a closed context or a closed window really
stop everything; it is on for the buffer, which goes on for ever.

**Fairness.** Only `App` states any. Weak fairness of main()'s own steps (loading,
`app_init`, `shell_run`, the return of `gtk_main`, cleanup), which are plain
sequential code. Strong fairness of each of the three `on_timeout` sources: they
have the default priority, and GLib collects every source that is due before it
dispatches any, so a source that is due again and again is dispatched again and
again; it is strong because a transfer disables the others while it lasts. No
fairness is assumed of users, one-shot timers or transfers: the code sets no
libcurl timeout, so a transfer may take for ever, and `Refreshed` names the end
of every transfer as its premise instead.

## 4. Where the code disagrees with itself

| Run | What the code says | What it does |
|---|---|---|
| `coincheck_privilege` | "use query_key (the principle of least privilege )" (`coincheck.c:375`) | `http_get`, `http_post` and `http_delete` return before freeing the header list when the transfer fails: the trade key's triple of a failed order is sent again with the next query |
| `ticker_assert` | `assert(partial_length > 0 && end_pos > 0)` (`coincheck-gui.c:635`) | only `end_pos` is reduced modulo the size. When the samples asked for lie wholly in the wrapped part, `start_pos` is at or beyond the end. The chart asks for 2000 of up to 1,000,000 samples, so this comes a little after the first wrap |
| `form_bid` | "update btc_sell ( to sell to an existing bid order )" (`coincheck-gui.c:318`) | line 321 calls the buy side's callback: the sell button is judged only if the amount happens to change |
| `shell_bar` | "show infobar 5 seconds" (`coincheck-gui.c:89`) | timers of earlier messages are not removed and hide a later one too soon |

## 5. Proofs

The theorems hold for every value of the constants that satisfies the named
assumptions (one `...Assumption` in each module that declares constants), which
only give bounds, sizes and answers their types and keep null values apart from
objects. TLC checks every assumption on the instances, and checked the properties
and the larger inductive invariants before they were proved.

* **HttpJsonProofs.** `IInv` is inductive: `TypeOK`, `OwnersCounted`,
  `OneResponse`, `FreshDocument`, `NoLeak`. `OwnersCounted` is needed for
  `TypeOK` (a put never makes a count negative); `FreshDocument` for `NoLeak`
  (the document a second one overwrites has one owner, so its count after that
  is the one lost reference); `OneResponse` for the refinement (a document given
  to a caller comes from that request alone). Results: `NoUseAfterFree`,
  `NothingLeaks`, `ResponsesApart`, `Refinement`.
* **CoincheckApiProofs.** `HttpDiscipline`: every step of the client is a step
  of `HttpJson` or leaves it alone, for which the stage of the call must agree
  with the phase of the context (`StageOK`). Through it the theorems about the
  context hold inside the client: `ClientNoUseAfterFree`,
  `ClientImplementsExchange`, and, with what the last call returned, `OutOwned`
  and `OutAnswersOwnRequest`. `HeadersInvariance` (`HeadersInv`: stage, list and
  last result agree) gives `OwnHeaders`; `SignedInv` on top of it, which follows
  the triple from its signature to the request it was made for, gives
  `SignedByOwn`.
* **ZaifApiProofs.** `CallInv` relates the list, the buffer and the stage: after
  a success the list is empty until the next signature, and from there its last
  pair signs the buffer. `SignedBodies`, `OwnPairs`, `BuffersFreed` and
  `HttpDiscipline` follow, and from the last `ClientNoUseAfterFree` and
  `ClientImplementsExchange` as for coincheck.
* **TickerRingProofs.** `TypeCorrect`; `Refinement` to `SlidingWindow` for every
  size (lemmas on the modulus of a sum below twice the size, and on a step in a
  ring that grows or slides); `ReaderCorrect`; `AssertionDelimited`, which says
  for which reads the assertion of section 4 fails and which leave the array. For
  the chart `ChartInv` adds that the ring holds appended samples only (`Filled`),
  that the entries show the latest of them (`Latest`), without which a failed
  answer could draw something else, and that a program that has not aborted reads
  from inside the array (`ReadsWhileRunning`): the start of the read moves by at
  most one sample per append, so it meets the end of the array, where the
  assertion fails, before it can pass it (`EndRefused`). `DrawingInside` bounds
  the point of each consistent sample among any others, of prices that are any
  integers. Results, for every set of documents: `CurveFits`,
  `ChartCurrent`, `AbortsFirst`, and `WholeRingNeverAborts` for a chart of at
  least the whole ring. Asserts are compiled in; without them the reads
  `AssertionDelimited` names would leave the array.
* **AutoBufferProofs.** `IInv` is `TypeOK`, `InBounds`, `EmptyAtZero` and
  `Filled` (no byte that can be popped was never written); `Filled` is needed so
  that the contents are bytes. `RoundedUp`, `GrowKeeps`, `WriteInside` and
  `StoreStep` are the lemmas; `BoundsKept`, `StartsAgain` and `Refinement` to
  `ByteQueue` the results.
* **OrderBookProofs.** `NoInvalidOrder` is directly inductive: `Submit` is the
  only step that sends. `BookInv` (the rows are those of one answer, and the
  sequences they are) gives `OneAnswerShown`; with `FormTypeOK`, that a selection
  hands on a rate and an amount of the form's own types, it gives
  `AskJudgesBuy` and `BidJudgesBuyToo`, what exactly a bid does instead of what
  its comment says (section 4).
  `BarsAlwaysComparable` holds of every refresh by itself: one measure for both sides (`Measure`) and
  whole percents that follow the amount (`Percents`); they also give the rows
  their type for `TypeCorrect`.
* **AppProofs.** `MessagesHidden` is inductive by itself. `HiddenByOlderOnly`, the
  extent of the last finding of section 4, needs that no timer is of a message to
  come and that the one of the last message is due an interval after it was
  shown. `RefsInv` says how many references there are at each stage of main():
  one of the program's and one of each agency made so far; it gives
  `AllReturned`. `LifeInv` says who may be asking at each stage, that a running
  shell has its window, and that an agency has its own entry's keys; with the
  least index that exists because < is well-founded on the naturals
  (`AgentNamed`) it gives `AskingAlive`.
* **CliProofs.** `ListedInv` says the same of the rows and of the list that is
  fetched but not yet shown: an order either leaves out is closed, newer than the
  fetch, or `Excused`. Steps of the exchange and the tool only close orders or
  add newer ones (`ExchangeListed`); a row that is removed is closed or refused
  (`RemovedStep`): `OpenOrdersShown`. `LiveInv` lists what a callback may still have to do
  (`Fetched`, `Unfetched`) and says that the tree can be older than its lists only
  while showing them is among it: `RowsLive`. `NeverExchanged` is by cases on two
  parameters. `ClosedInv` says that what the tool was told stays true, because
  no step opens an accepted order again (`OrdersStep`): `ClosedWhenZero`.
  For `UnitsListedOnce`, `ExchangeInv` keeps what has traded and what is pending
  of an order within its units, and `PanelInv` says of the lists what the order
  of the requests makes true: the history counts no trade the exchange has not
  made, and once both lists are there what they count of an order fits in its
  units, because trades in between only leave the second list. That counting a
  sorted, reversed list gives the same number is `HistoryOfTrades`, from the
  rearrangement theorem `SortedRearranges` (every entry has a rank of its own,
  `EveryRank`, and ranks grow with the order, `RankOrder`) and a bijection between
  the positions counted. `OneParent` needs only that in a sorted list the entries
  of an order are neighbours (`ParentsOnce`).

The least member of a set of naturals, the greatest of a bounded one and a bound
for every finite sequence (`MinOfNats`, `MinOfInts`, `MaxOfInts`, `PrefixesBounded`) come from
the well-foundedness of < by the smallest counterexample, in place of an
induction, which the installed provers cannot instantiate.

Every property of a passing run is a theorem but two: the liveness properties
`EndsWhenClosed` and `Refreshed` are out of the provers' reach and stay with
TLC. So do the four properties that fail (section 4); what the code does in
their place is proved for three of them (`OwnHeaders`, `AssertionDelimited` with
`AbortsFirst`, `BidJudgesBuyToo`) and the extent of the fourth
(`HiddenByOlderOnly`).

## 6. Not modelled

* `trading_agency_run`, `stop` and the worker: nothing calls them and the worker
  does nothing. Were they called, `stop` would wait for a worker that waits for
  the flag `stop` sets afterwards (`trading_agency.c:341`).
* The command line's other commands: queries print an answer and change nothing;
  bank accounts and withdrawals are requests nothing else here uses. zaif-cli has
  the same loops, for an account no second client shares.
* zaif's amounts: `buy` writes three decimals and `sell` six of a value both have
  checked against one minimum (`zaif.c:324`); listed as a hazard.
  `zaif_public_get_currency_pair` and `get_last_price` are declared and not
  implemented.
* Strings of the configuration beyond which keys are there; column layout,
  colours, times, the wording of messages.
* The websocket prototype (prints what arrives), Berkeley DB and GTK test
  programs, vendored hashes and ciphers, utilities.
* Memory of the callers: `PROJECT.json` lists what refreshes and an empty chart
  leak; the proofs cover the documents inside json-response.c.

## 7. Plan

Done, in this order: `HttpJson`, `CoincheckApi`, `TickerRing`, `OrderForm`,
`Shell`, `OrderSession`, `AutoBuffer`, `ZaifApi`, `OrderBook`, `Chart`, `App`,
`Cli`, with the proofs above.

Next:

1. zaif's amounts: the two formats of `buy` and `sell` on micro-units, against
   the minimum both assert (in the run `zaif`).
2. Composition of `OrderBook` and `OrderSession`: an order that was sent is the
   one the session places, stale amounts included.
3. An abstract specification of the session (an order book seen late) and its
   refinement.

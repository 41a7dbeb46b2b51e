----------------------------- MODULE MCScraper ------------------------------
EXTENDS Scraper, TLC
CONSTANTS w1, w2, k1, k2, lr, lb, ss
MCOffers == (lr :> {k1}) @@ (lb :> {k1, k2}) @@ (ss :> {k1, k2})
MCCovers == (lr :> {1}) @@ (lb :> {1}) @@ (ss :> {1, 2, 3})
MCUploaded == {<<3, k1>>}
Quiet == [requests |-> {}, start |-> 1, cancel |-> 0, resume |-> 0, skip |-> 0, choose |-> 0, search |-> 0,
          quota |-> 0, crash |-> 0]
Ask(chain, games, kinds) == [chain |-> chain, games |-> games, kinds |-> kinds, overwrite |-> FALSE]
Replace(r) == [r EXCEPT !.overwrite = TRUE]
Two(chain) == Ask(chain, {1, 2}, {k1})
One(chain) == Ask(chain, {1}, {k1, k2})
MCScenarios == {
    \* a quota ends in the middle of two games' way down the funnel
    [Quiet EXCEPT !.requests = {Two(<<lr, ss>>)}, !.quota = 1, !.resume = 1],
    \* a game is cancelled, resumed and given the name the user chose
    [Quiet EXCEPT !.requests = {One(<<lr, ss>>)}, !.choose = 1, !.cancel = 1, !.resume = 1],
    \* a game is searched for, chosen and skipped while its job runs
    [Quiet EXCEPT !.requests = {One(<<lr, ss>>)}, !.choose = 1, !.search = 1, !.skip = 1],
    \* a single source, cancelled for another job
    [Quiet EXCEPT !.requests = {Ask(<<ss>>, {1}, {k1}), Ask(<<lb, ss>>, {1}, {k1})}, !.start = 2, !.cancel = 1],
    \* the server dies while what is stored is replaced (game 3's picture is the user's own),
    \* and a database cannot be had
    [Quiet EXCEPT !.requests = {Replace(Ask(<<lb, ss>>, {g}, {k1, k2})) : g \in {1, 3}}, !.crash = 1, !.quota = 1]
}
MCChoices == {[Quiet EXCEPT !.requests = {One(<<lr, ss>>)}, !.crash = 1, !.quota = 1, !.resume = 1]}
=============================================================================

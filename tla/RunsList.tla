------------------------------ MODULE RunsList ------------------------------
(***************************************************************************)
(* The page of all runs (apps/web, runs/page.tsx).  Its filters live in    *)
(* the address: a change takes the parameters of some rendering, alters    *)
(* one of them and replaces the address, which arrives later.  The search  *)
(* box has a text of its own and does so a moment after the last key.      *)
(*                                                                         *)
(* One choice stands for the status and workspace filters and the order,   *)
(* and the user has runs.                                                  *)
(***************************************************************************)
EXTENDS Naturals

CONSTANTS
  Filters,     \* values of the filters; AllRuns is the default
  AllRuns,
  Texts,       \* texts of the search box; NoText is the empty one
  NoText,
  AllText,     \* the word "all"
  MaxPages,    \* bound: pages of PAGE_SIZE rows the server has
  MaxRetries   \* bound: retries of a run under way at once

ASSUME FiltersAssumption ==
  /\ AllRuns \in Filters /\ "none" \notin Filters
  /\ NoText \in Texts /\ AllText # NoText /\ MaxPages \in Nat \ {0} /\ MaxRetries \in Nat

NoParams == [choice |-> "none", q |-> "none"]
NoTimer == [q |-> "none", params |-> NoParams]

VARIABLES
  searchParams,   \* the address: choice and q
  navigation,     \* the address router.replace is on its way to, or NoParams
  searchInput,
  searchTimer,    \* the debounced search: its text and the parameters of the
                  \* rendering that set it, or NoTimer
  visiblePages,   \* visibleCount
  runsReq,        \* the list's useResource: "sent", "answered", "ready", "failed"
  runsFor,        \* what the answer or the rows are for: parameters and pages
  retries, retryError,
  leftFor,        \* the page left for the run a retry started
  (* Record the past for the properties; no guard reads them.              *)
  wanted,         \* the choice and the text the user last asked for
  hurried         \* those of the two that a later wish may have cost: both,
                  \* if one was asked for while another was on its way, or
                  \* cleared before a search fired; the choice, if it was
                  \* made before a search fired

listVars == <<visiblePages, runsReq, runsFor>>
retryVars == <<retries, retryError, leftFor>>
wishes == <<wanted, hurried>>
runsListVars == <<searchParams, navigation, searchInput, searchTimer, listVars, retryVars, wishes>>

Params(c, t) == [choice |-> c, q |-> t]
Unfiltered == Params(AllRuns, NoText)
Asked(p, n) == [params |-> p, pages |-> n]
hasActiveFilters == searchParams # Unfiltered

RunsListInit ==
  /\ searchParams \in {Params(c, t) : c \in Filters, t \in Texts}
  /\ navigation = NoParams /\ searchInput = searchParams.q /\ searchTimer = NoTimer
  /\ visiblePages = 1 /\ runsReq = "sent" /\ runsFor = Asked(searchParams, 1)
  /\ retries = 0 /\ retryError = FALSE /\ leftFor = FALSE
  /\ wanted = searchParams /\ hurried = {}

-----------------------------------------------------------------------------
(* Filters and search.                                                     *)

Want(w, lostToTimer) ==
  /\ wanted' = w
  /\ hurried' = hurried \cup (IF navigation # NoParams THEN {"choice", "q"}
                            ELSE IF searchTimer # NoTimer THEN lostToTimer ELSE {})

(* A select, a column's header: the other parameters are the address's.    *)
Choose(c) ==
  /\ ~leftFor /\ c # searchParams.choice
  /\ navigation' = [searchParams EXCEPT !.choice = c]
  /\ Want([wanted EXCEPT !.choice = c], {"choice"})
  /\ UNCHANGED <<searchParams, searchInput, searchTimer, listVars, retryVars>>

(* "Clear filters", above the table or in an empty one.                    *)
ClearFilters ==
  /\ ~leftFor /\ hasActiveFilters
  /\ navigation' = Unfiltered
  /\ Want(Unfiltered, {"choice", "q"})
  /\ UNCHANGED <<searchParams, searchInput, searchTimer, listVars, retryVars>>

TwoTimers(t, params) ==    \* mutant: the earlier timer is not cleared
  IF searchTimer # NoTimer THEN searchTimer
  ELSE IF t = params.q THEN NoTimer ELSE [q |-> t, params |-> params]

(* The effect of a changed input: the timer before it is cleared, and one  *)
(* is set unless the text is the address's already.                        *)
Debounced(t, params) == IF t = params.q THEN NoTimer ELSE [q |-> t, params |-> params]

TypeSearch(t) ==
  /\ ~leftFor /\ t # searchInput
  /\ searchInput' = t /\ searchTimer' = Debounced(t, searchParams)
  /\ Want([wanted EXCEPT !.q = t], {})
  /\ UNCHANGED <<searchParams, navigation, listVars, retryVars>>

(* updateParams deletes a parameter given no value or "all", which is the  *)
(* filters' default, but a word like any other in a search.                *)
InAddress(t) == IF t = AllText THEN NoText ELSE t

(* It fires: updateParams with the parameters it was set under.            *)
SearchFires ==
  /\ searchTimer # NoTimer
  /\ navigation' = [searchTimer.params EXCEPT !.q = InAddress(searchTimer.q)]
  /\ searchTimer' = NoTimer
  /\ UNCHANGED <<searchParams, searchInput, listVars, retryVars, wishes>>

(* The new address: the input follows a changed q, which clears the timer  *)
(* if that changes the input; the list starts over on its first page.      *)
NavigationArrives ==
  /\ navigation # NoParams
  /\ searchParams' = navigation /\ navigation' = NoParams
  /\ IF navigation.q # searchParams.q /\ navigation.q # searchInput
     THEN searchInput' = navigation.q /\ searchTimer' = Debounced(navigation.q, navigation)
     ELSE UNCHANGED <<searchInput, searchTimer>>
  /\ IF navigation # searchParams
     THEN visiblePages' = 1 /\ runsReq' = "sent" /\ runsFor' = Asked(navigation, 1)
     ELSE UNCHANGED listVars
  /\ UNCHANGED <<retryVars, wishes>>

-----------------------------------------------------------------------------
(* The rows.  A changed dependency drops the request under way.            *)

AnswerRuns ==
  /\ runsReq = "sent" /\ runsReq' \in {"answered", "failed"}
  /\ UNCHANGED <<searchParams, navigation, searchInput, searchTimer, visiblePages, runsFor, retryVars, wishes>>

ReceiveRuns ==
  /\ runsReq = "answered" /\ runsReq' = "ready"
  /\ UNCHANGED <<searchParams, navigation, searchInput, searchTimer, visiblePages, runsFor, retryVars, wishes>>

RetryRuns ==
  /\ runsReq = "failed" /\ ~leftFor /\ runsReq' = "sent"
  /\ UNCHANGED <<searchParams, navigation, searchInput, searchTimer, visiblePages, runsFor, retryVars, wishes>>

LoadMore ==
  /\ runsReq = "ready" /\ ~leftFor /\ visiblePages < MaxPages
  /\ visiblePages' = visiblePages + 1
  /\ runsReq' = "sent" /\ runsFor' = Asked(searchParams, visiblePages')
  /\ UNCHANGED <<searchParams, navigation, searchInput, searchTimer, retryVars, wishes>>

(* A failed or cancelled run's button, which stays enabled meanwhile.      *)
RetryRun ==
  /\ runsReq = "ready" /\ ~leftFor /\ retries < MaxRetries
  /\ retries' = retries + 1
  /\ UNCHANGED <<searchParams, navigation, searchInput, searchTimer, listVars, retryError, leftFor, wishes>>

(* router.push leaves the page, and with it whatever was on its way to it. *)
RetryAnswered ==
  /\ retries > 0 /\ retries' = retries - 1
  /\ \/ /\ retryError' = FALSE /\ leftFor' = TRUE
        /\ navigation' = NoParams /\ searchTimer' = NoTimer
     \/ retryError' = TRUE /\ UNCHANGED <<leftFor, navigation, searchTimer>>
  /\ UNCHANGED <<searchParams, searchInput, listVars, wishes>>

RunsListNext ==
  \/ \E c \in Filters : Choose(c)
  \/ \E t \in Texts : TypeSearch(t)
  \/ ClearFilters \/ SearchFires \/ NavigationArrives
  \/ AnswerRuns \/ ReceiveRuns \/ RetryRuns \/ LoadMore
  \/ RetryRun \/ RetryAnswered

RunsListSpec == RunsListInit /\ [][RunsListNext]_runsListVars

-----------------------------------------------------------------------------
(* Properties.                                                             *)

RunsListTypeOK ==
  /\ searchParams.choice \in Filters /\ searchParams.q \in Texts
  /\ searchInput \in Texts /\ visiblePages \in 1..MaxPages
  /\ runsReq \in {"sent", "answered", "ready", "failed"}
  /\ retries \in 0..MaxRetries

(* The address has a text, or the text is one that it drops.               *)
Stands(t, q) == t = q \/ (t = AllText /\ q = NoText)

(* Once nothing is on its way, the address has what the user last asked    *)
(* for, the search box shows its text, and the rows are the address's and  *)
(* no other's; also when a text was typed before a filter was chosen and   *)
(* fired after it.  Excepted are the word "all", dropped as a search and   *)
(* possibly left in the box; what was asked for, or on its way, when       *)
(* something else was asked for (the address on its way lacks it, or       *)
(* overwrites it); and a filter chosen, or all of them cleared, before a   *)
(* search fired: it brings back those of the rendering it was typed in.    *)
FiltersKept ==
  ~leftFor /\ searchTimer = NoTimer /\ navigation = NoParams =>
    /\ "choice" \notin hurried => searchParams.choice = wanted.choice
    /\ "q" \notin hurried =>
         Stands(wanted.q, searchParams.q) /\ Stands(searchInput, searchParams.q)
    /\ runsReq = "ready" => runsFor = Asked(searchParams, visiblePages)
=============================================================================

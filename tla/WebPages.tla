------------------------------- MODULE WebPages -------------------------------
(***************************************************************************)
(* Pages of the web client side by side.  A behaviour is one of one page,  *)
(* the variables of the others resting; the pages share no state but the   *)
(* server's, which each page's module has a part of.                       *)
(***************************************************************************)
EXTENDS WebPagesProofs

\* The texts of the forms.
CONSTANTS TrimmedText, LowerText, NumberOf, ParsedText, SchemaTexts, Identifiers, Patterns, Formatted,
          FileNames, FileNamespaces, LabelKeys, EntityRefs, TagNames, SingleWords, Uris

BlueprintPage == INSTANCE BlueprintForm
EntityPage == INSTANCE EntityForm
CatalogPage == INSTANCE CatalogForm

VARIABLE part  \* the page of this behaviour

\* The variables of the pages, and the pages at rest.
batchesVars == <<flow, versions, input, running, report, confirmation>>
builderVars == <<schema, builder, worked>>
viewsVars == <<picker, views, held, viewList, current, picked, viewDialog, write>>
listsVars == <<table, revisions, askable, query, answer, refused, deletion>>
flagsVars == <<flags, flagRows, feature, wanted, switch, preparing, pending, unsaved, run, agreed>>
dictionaryVars == <<dictionary, entries, minted, cached, page, rows, base, puts, frozen, inserted, added>>
modalVars == <<family, registry, modalList, modalTarget, typed, mount, submitting, problem, saves>>
pageVars == <<part, editorVars, syncVars, batchesVars, builderVars, queryVars, viewsVars, listsVars, flagsVars, keyVars, dictionaryVars, modalVars>>

EditorRest == kind = "rest" /\ stored = "rest" /\ detail = "rest" /\ editor = "rest" /\ dialog = "rest" /\ sent = "rest" /\ own = "rest"
SyncRest == target = "rest" /\ row = "rest" /\ source = "rest" /\ asked = "rest" /\ modal = "rest" /\ confirmed = "rest"
BatchRest == flow = "rest" /\ versions = "rest" /\ input = "rest" /\ running = "rest" /\ report = "rest" /\ confirmation = "rest"
BuilderRest == schema = "rest" /\ builder = "rest" /\ worked = "rest"
QueryRest == user = "rest" /\ storage = "rest" /\ snapshot = "rest" /\ known = "rest"
ViewRest == picker = "rest" /\ views = "rest" /\ held = "rest" /\ viewList = "rest" /\ current = "rest" /\ picked = "rest" /\ viewDialog = "rest" /\ write = "rest"
ListRest == table = "rest" /\ revisions = "rest" /\ askable = "rest" /\ query = "rest" /\ answer = "rest" /\ refused = "rest" /\ deletion = "rest"
FlagRest == flags = "rest" /\ flagRows = "rest" /\ feature = "rest" /\ wanted = "rest" /\ switch = "rest" /\ preparing = "rest" /\ pending = "rest" /\ unsaved = "rest" /\ run = "rest" /\ agreed = "rest"
KeyRest == login = "rest" /\ clients = "rest" /\ listed = "rest" /\ form = "rest" /\ shown = "rest" /\ revokeTarget = "rest" /\ requests = "rest" /\ busy = "rest"
DictionaryRest == dictionary = "rest" /\ entries = "rest" /\ minted = "rest" /\ cached = "rest" /\ page = "rest" /\ rows = "rest" /\ base = "rest" /\ puts = "rest" /\ frozen = "rest" /\ inserted = "rest" /\ added = "rest"
ModalRest == family = "rest" /\ registry = "rest" /\ modalList = "rest" /\ modalTarget = "rest" /\ typed = "rest" /\ mount = "rest" /\ submitting = "rest" /\ problem = "rest" /\ saves = "rest"

PageInit ==
  \/ part = "editors" /\ EditorInit /\ SyncRest /\ BatchRest /\ BuilderRest /\ QueryRest /\ ViewRest /\ ListRest /\ FlagRest /\ KeyRest /\ DictionaryRest /\ ModalRest
  \/ part = "sync" /\ SyncInit /\ EditorRest /\ BatchRest /\ BuilderRest /\ QueryRest /\ ViewRest /\ ListRest /\ FlagRest /\ KeyRest /\ DictionaryRest /\ ModalRest
  \/ part = "batches" /\ Batches!BatchInit /\ EditorRest /\ SyncRest /\ BuilderRest /\ QueryRest /\ ViewRest /\ ListRest /\ FlagRest /\ KeyRest /\ DictionaryRest /\ ModalRest
  \/ part = "builder" /\ Builder!BuilderInit /\ EditorRest /\ SyncRest /\ BatchRest /\ QueryRest /\ ViewRest /\ ListRest /\ FlagRest /\ KeyRest /\ DictionaryRest /\ ModalRest
  \/ part = "queries" /\ QueryInit /\ EditorRest /\ SyncRest /\ BatchRest /\ BuilderRest /\ ViewRest /\ ListRest /\ FlagRest /\ KeyRest /\ DictionaryRest /\ ModalRest
  \/ part = "views" /\ Views!ViewInit /\ EditorRest /\ SyncRest /\ BatchRest /\ BuilderRest /\ QueryRest /\ ListRest /\ FlagRest /\ KeyRest /\ DictionaryRest /\ ModalRest
  \/ part = "lists" /\ Lists!ListInit /\ EditorRest /\ SyncRest /\ BatchRest /\ BuilderRest /\ QueryRest /\ ViewRest /\ FlagRest /\ KeyRest /\ DictionaryRest /\ ModalRest
  \/ part = "flags" /\ Flags!FlagInit /\ EditorRest /\ SyncRest /\ BatchRest /\ BuilderRest /\ QueryRest /\ ViewRest /\ ListRest /\ KeyRest /\ DictionaryRest /\ ModalRest
  \/ part = "keys" /\ KeyInit /\ EditorRest /\ SyncRest /\ BatchRest /\ BuilderRest /\ QueryRest /\ ViewRest /\ ListRest /\ FlagRest /\ DictionaryRest /\ ModalRest
  \/ part = "dictionary" /\ Dictionary!DictionaryInit /\ EditorRest /\ SyncRest /\ BatchRest /\ BuilderRest /\ QueryRest /\ ViewRest /\ ListRest /\ FlagRest /\ KeyRest /\ ModalRest
  \/ part = "modal" /\ Modals!ModalInit /\ EditorRest /\ SyncRest /\ BatchRest /\ BuilderRest /\ QueryRest /\ ViewRest /\ ListRest /\ FlagRest /\ KeyRest /\ DictionaryRest

PageNext ==
  \/ part = "editors" /\ UNCHANGED <<part, syncVars, batchesVars, builderVars, queryVars, viewsVars, listsVars, flagsVars, keyVars, dictionaryVars, modalVars>> /\ EditorNext
  \/ part = "sync" /\ UNCHANGED <<part, editorVars, batchesVars, builderVars, queryVars, viewsVars, listsVars, flagsVars, keyVars, dictionaryVars, modalVars>> /\ SyncNext
  \/ part = "batches" /\ UNCHANGED <<part, editorVars, syncVars, builderVars, queryVars, viewsVars, listsVars, flagsVars, keyVars, dictionaryVars, modalVars>> /\ Batches!BatchNext
  \/ part = "builder" /\ UNCHANGED <<part, editorVars, syncVars, batchesVars, queryVars, viewsVars, listsVars, flagsVars, keyVars, dictionaryVars, modalVars>> /\ Builder!BuilderNext
  \/ part = "queries" /\ UNCHANGED <<part, editorVars, syncVars, batchesVars, builderVars, viewsVars, listsVars, flagsVars, keyVars, dictionaryVars, modalVars>> /\ QueryNext
  \/ part = "views" /\ UNCHANGED <<part, editorVars, syncVars, batchesVars, builderVars, queryVars, listsVars, flagsVars, keyVars, dictionaryVars, modalVars>> /\ Views!ViewNext
  \/ part = "lists" /\ UNCHANGED <<part, editorVars, syncVars, batchesVars, builderVars, queryVars, viewsVars, flagsVars, keyVars, dictionaryVars, modalVars>> /\ Lists!ListNext
  \/ part = "flags" /\ UNCHANGED <<part, editorVars, syncVars, batchesVars, builderVars, queryVars, viewsVars, listsVars, keyVars, dictionaryVars, modalVars>> /\ Flags!FlagNext
  \/ part = "keys" /\ UNCHANGED <<part, editorVars, syncVars, batchesVars, builderVars, queryVars, viewsVars, listsVars, flagsVars, dictionaryVars, modalVars>> /\ KeyNext
  \/ part = "dictionary" /\ UNCHANGED <<part, editorVars, syncVars, batchesVars, builderVars, queryVars, viewsVars, listsVars, flagsVars, keyVars, modalVars>> /\ Dictionary!DictionaryNext
  \/ part = "modal" /\ UNCHANGED <<part, editorVars, syncVars, batchesVars, builderVars, queryVars, viewsVars, listsVars, flagsVars, keyVars, dictionaryVars>> /\ Modals!ModalNext

PageSpec == PageInit /\ [][PageNext]_pageVars

-----------------------------------------------------------------------------
(* Properties *)

\* A save pressed after the re-read that follows an overwrite or a sync never brings
\* back the document from before it (reseedFromServer of the edit pages); an entry a save of
\* a dictionary has stored is not stored again by a later save of the same form.
SavesFollowTheReread == [][/\ (part = "editors" => FollowsTheReread)
                            /\ (part = "dictionary" => Dictionary!RowsAreStoredOnce)]_pageVars

\* What a page writes is what its user was looking at: a catalog file is replaced only as
\* seen, a confirmed sync writes what was compared, a confirmed import stores over the
\* version it was converted over; a delete names the revision shown, a bulk switch of a
\* feature accounts for every row it was confirmed for, a query narrows what the draft says.
WritesMatchWhatWasSeen == [][/\ (part = "editors" => ReplacesAsSeen)
                              /\ (part = "sync" => WritesWhatWasCompared)
                              /\ (part = "batches" => Batches!StoresAsPreviewed)
                              /\ (part = "queries" => NarrowsByTheDraft)
                              /\ (part = "lists" => Lists!DeletesAsSeen)
                              /\ (part = "flags" => Flags!RunsAreWhole)]_pageVars

\* A batch carries a reference only with the very text fetched from it, and its report
\* has every row at its own document (runBatch, runImportBatch, runCatalogFileBatches).
ReportsLineUp ==
  part = "batches" => Batches!ReportsLineUp

\* What a page offers it can do: a built query is one the server accepts over the schema,
\* a rename keeps the content of its row, a table says empty only of an answer that was, what
\* the dictionary and registry forms send is well formed and of the row that is open.
PagesOfferWhatTheyShow ==
  /\ (part = "builder" => Builder!OffersAccepted /\ Builder!SaysWhy)
  /\ (part = "views" => Views!RenamesKeepContent)
  /\ (part = "lists" => Lists!EmptyIsAnAnswer)
  /\ (part = "dictionary" => Dictionary!SentIsWellFormed)
  /\ (part = "modal" => Modals!SavesAreOwnAndWellFormed)

\* An account is shown, and asks with, nothing but queries of its own; a key that is shown
\* once is shown to the login that made it (IntegrationClients).
QueriesStayWithTheirAccount ==
  /\ (part = "queries" => StaysWithItsAccount)
  /\ (part = "keys" => KeysStayWithTheirLogin)

-----------------------------------------------------------------------------
(* The pages together *)

PageConstants ==
  /\ QueryConstants /\ KeyConstants /\ SyncConstants /\ EditorConstants /\ FlagConstants /\ ViewConstants
  /\ ModalConstants /\ DictionaryConstants /\ BatchConstants /\ BuilderConstants

\* The page of a behaviour keeps its invariant; the others rest.
PagesInv ==
  /\ (part = "queries" => QueryInv) /\ (part = "keys" => KeyInv) /\ (part = "sync" => SyncInv) /\ (part = "editors" => EditorInv)
  /\ (part = "flags" => FlagInv) /\ (part = "views" => ViewInv) /\ (part = "modal" => ModalInv)
  /\ (part = "dictionary" => DictionaryInv) /\ (part = "batches" => BatchInv) /\ (part = "builder" => BuilderInv)

LEMMA PagesStart == ASSUME PageConstants, PageInit PROVE PagesInv
<1>1. /\ part = "queries" => QueryInit
      /\ part = "keys" => KeyInit
      /\ part = "sync" => SyncInit
      /\ part = "editors" => EditorInit
      /\ part = "flags" => Flags!FlagInit
      /\ part = "views" => Views!ViewInit
      /\ part = "modal" => Modals!ModalInit
      /\ part = "dictionary" => Dictionary!DictionaryInit
      /\ part = "batches" => Batches!BatchInit
      /\ part = "builder" => Builder!BuilderInit
  BY Zenon DEF PageInit
<1>2. /\ part = "queries" => QueryInv
      /\ part = "keys" => KeyInv
      /\ part = "sync" => SyncInv
      /\ part = "editors" => EditorInv
  BY <1>1, QueryInvInit, KeysStart, SyncStarts, EditorStarts, Zenon DEF PageConstants
<1>3. /\ part = "flags" => FlagInv
      /\ part = "views" => ViewInv
      /\ part = "modal" => ModalInv
  BY <1>1, FlagInvInit, ViewInvInit, ModalInvInit, Zenon DEF PageConstants
<1>4. /\ part = "dictionary" => DictionaryInv
      /\ part = "batches" => BatchInv
      /\ part = "builder" => BuilderInv
  BY <1>1, DictionaryStarts, BatchStarts, BuilderStarts, Zenon DEF PageConstants
<1> QED
  BY <1>2, <1>3, <1>4, Zenon DEF PagesInv

\* A step is one of the page of the behaviour, or leaves that page as it is.
LEMMA PagesStep ==
  ASSUME [PageNext]_pageVars
  PROVE  /\ part' = part
         /\ part = "queries" => [QueryNext]_queryVars
         /\ part = "keys" => [KeyNext]_keyVars
         /\ part = "sync" => [SyncNext]_syncVars
         /\ part = "editors" => [EditorNext]_editorVars
         /\ part = "flags" => [Flags!FlagNext]_(Flags!flagVars)
         /\ part = "views" => [Views!ViewNext]_(Views!viewVars)
         /\ part = "modal" => [Modals!ModalNext]_(Modals!modalVars)
         /\ part = "dictionary" => [Dictionary!DictionaryNext]_(Dictionary!dictionaryVars)
         /\ part = "batches" => [Batches!BatchNext]_(Batches!batchVars)
         /\ part = "builder" => [Builder!BuilderNext]_(Builder!builderVars)
<1>1. CASE UNCHANGED pageVars
  <2>1. UNCHANGED <<part, queryVars, keyVars, syncVars, editorVars, flagsVars, viewsVars, modalVars, dictionaryVars, batchesVars, builderVars>>
    BY <1>1, Zenon DEF pageVars
  <2>2. UNCHANGED Flags!flagVars /\ UNCHANGED Views!viewVars /\ UNCHANGED Modals!modalVars
    BY <2>1, Zenon DEF flagsVars, viewsVars, modalVars, Flags!flagVars, Views!viewVars, Modals!modalVars
  <2>3. UNCHANGED Dictionary!dictionaryVars /\ UNCHANGED Batches!batchVars /\ UNCHANGED Builder!builderVars
    BY <2>1, Zenon DEF dictionaryVars, batchesVars, builderVars, Dictionary!dictionaryVars, Batches!batchVars, Builder!builderVars
  <2> QED
    BY <2>1, <2>2, <2>3, Zenon
<1>2. CASE PageNext
  BY <1>2, Zenon DEF PageNext
<1> QED
  BY <1>1, <1>2

LEMMA EveryPageKeeps == ASSUME PageConstants, PagesInv, [PageNext]_pageVars PROVE PagesInv'
<1>1. ASSUME part = "queries" PROVE QueryInv'
  BY <1>1, PagesStep, QueryStepKeeps, Zenon DEF PagesInv, PageConstants
<1>2. ASSUME part = "keys" PROVE KeyInv'
  BY <1>2, PagesStep, KeyStepKeeps, Zenon DEF PagesInv, PageConstants
<1>3. ASSUME part = "sync" PROVE SyncInv'
  BY <1>3, PagesStep, SyncStepKeeps, Zenon DEF PagesInv
<1>4. ASSUME part = "editors" PROVE EditorInv'
  BY <1>4, PagesStep, EditorStepKeeps, Zenon DEF PagesInv
<1>5. ASSUME part = "flags" PROVE FlagInv'
  BY <1>5, PagesStep, FlagStep, Zenon DEF PagesInv, PageConstants
<1>6. ASSUME part = "views" PROVE ViewInv'
  BY <1>6, PagesStep, ViewStepKeeps, Zenon DEF PagesInv, PageConstants
<1>7. ASSUME part = "modal" PROVE ModalInv'
  BY <1>7, PagesStep, ModalStepKeeps, Zenon DEF PagesInv, PageConstants
<1>8. ASSUME part = "dictionary" PROVE DictionaryInv'
  BY <1>8, PagesStep, DictionaryStep, Zenon DEF PagesInv, PageConstants
<1>9. ASSUME part = "batches" PROVE BatchInv'
  BY <1>9, PagesStep, BatchSteps, Zenon DEF PagesInv, PageConstants
<1>10. ASSUME part = "builder" PROVE BuilderInv'
  BY <1>10, PagesStep, BuilderStep, Zenon DEF PagesInv, PageConstants
<1>11. part' = part
  BY PagesStep
<1> QED
  BY <1>1, <1>2, <1>3, <1>4, <1>5, <1>6, <1>7, <1>8, <1>9, <1>10, <1>11, Zenon DEF PagesInv

LEMMA PagesKeepTheirInvariants == ASSUME PageConstants PROVE PageSpec => []PagesInv
  BY PagesStart, EveryPageKeeps, PTL DEF PageSpec

\* A batch carries a reference only with the very text fetched from it, and its report has
\* every row at its own document, in whichever page it runs (runBatch, runImportBatch).
THEOREM PagesReportInOrder == ASSUME PageConstants PROVE PageSpec => []ReportsLineUp
<1>1. PagesInv => ReportsLineUp
  BY BatchesLineUp, Zenon DEF PagesInv, ReportsLineUp
<1> QED
  BY <1>1, PagesKeepTheirInvariants, PTL

\* An account is shown, and asks with, nothing but queries of its own; a key that is shown
\* once is shown to the login that made it (useEntityQuery, IntegrationClients).
THEOREM PagesKeepAccountsApart == ASSUME PageConstants PROVE PageSpec => []QueriesStayWithTheirAccount
<1>1. PageConstants /\ PagesInv => QueriesStayWithTheirAccount
  BY QueriesStay, Zenon DEF PagesInv, PageConstants, KeyInv, QueriesStayWithTheirAccount
<1> QED
  BY <1>1, PagesKeepTheirInvariants, PTL

\* What a page offers it can do: a query that is offered is accepted by the server, a rename
\* keeps the content of its row, what a dictionary or a registry form sends is well formed and of
\* the row that is open, a table says empty only of an answer that was.
THEOREM PagesOfferWhatTheyCan == ASSUME PageConstants PROVE PageSpec => []PagesOfferWhatTheyShow
<1>1. PageConstants /\ PagesInv => PagesOfferWhatTheyShow
  <2> SUFFICES ASSUME PageConstants, PagesInv PROVE PagesOfferWhatTheyShow
    OBVIOUS
  <2>1. ASSUME part = "builder" PROVE Builder!OffersAccepted /\ Builder!SaysWhy
    BY <2>1, BuilderOffers, BuilderSaysWhy, Zenon DEF PagesInv, PageConstants
  <2>2. ASSUME part = "views" PROVE Views!RenamesKeepContent
    <3>1. ViewInv => Views!RenamesKeepContent
      BY DEF ViewInv, WriteInv, Mine, Views!RenamesKeepContent
    <3> QED
      BY Zenon, <2>2, <3>1 DEF PagesInv
  <2>3. ASSUME part = "dictionary" PROVE Dictionary!SentIsWellFormed
    BY <2>3, Zenon DEF PagesInv, DictionaryInv, PutInv, Dictionary!SentIsWellFormed
  <2>4. ASSUME part = "modal" PROVE Modals!SavesAreOwnAndWellFormed
    BY <2>4, Zenon DEF PagesInv, ModalInv, Modals!SavesAreOwnAndWellFormed
  <2> QED
    BY <2>1, <2>2, <2>3, <2>4, EmptyIsAnswered, Zenon DEF PagesOfferWhatTheyShow
<1> QED
  BY <1>1, PagesKeepTheirInvariants, PTL

\* A save pressed after the re-read that follows an overwrite or a sync never brings back the
\* document from before it; an entry a save of a dictionary form stored is not stored again
\* (reseedFromServer of the edit pages, DictionaryEditor).
THEOREM PagesFollowTheReread == ASSUME PageConstants PROVE PageSpec => SavesFollowTheReread
<1>1. PagesInv /\ [PageNext]_pageVars =>
        (part = "editors" => FollowsTheReread) /\ (part = "dictionary" => Dictionary!RowsAreStoredOnce)
  BY PagesStep, EditorsWriteWhatWasSeen, RowsAreNew, Zenon DEF PagesInv
<1> QED
  BY <1>1, PagesKeepTheirInvariants, PTL DEF PageSpec, SavesFollowTheReread

\* What a page writes is what its user was looking at: a file is replaced as seen, a sync
\* writes what was compared, an import stores over the version it was converted over, a delete
\* names the revision shown, a bulk switch accounts for every row it was confirmed for, a
\* query narrows what the draft says.
THEOREM PagesWriteWhatWasSeen == ASSUME PageConstants PROVE PageSpec => WritesMatchWhatWasSeen
<1>1. ASSUME PageConstants, PagesInv, [PageNext]_pageVars
      PROVE  /\ part = "editors" => ReplacesAsSeen
             /\ part = "sync" => WritesWhatWasCompared
             /\ part = "batches" => Batches!StoresAsPreviewed
             /\ part = "queries" => NarrowsByTheDraft
             /\ part = "lists" => Lists!DeletesAsSeen
             /\ part = "flags" => Flags!RunsAreWhole
  <2>1. part = "editors" => ReplacesAsSeen
    BY <1>1, PagesStep, EditorsWriteWhatWasSeen, Zenon DEF PagesInv
  <2>2. part = "sync" => WritesWhatWasCompared
    BY <1>1, PagesStep, AppliedAsCompared, Zenon DEF PagesInv
  <2>3. part = "batches" => Batches!StoresAsPreviewed
    BY <1>1, PagesStep, StepsStoreAsPreviewed, Zenon DEF PagesInv, PageConstants
  <2>4. part = "queries" => NarrowsByTheDraft
    BY <1>1, PagesStep, QueryStepNarrows, Zenon DEF PagesInv
  <2>5. part = "flags" => Flags!RunsAreWhole
    BY <1>1, PagesStep, FlagStep, Zenon DEF PagesInv, PageConstants
  <2> QED
    BY <2>1, <2>2, <2>3, <2>4, <2>5, FilesGoAsSeen, Zenon
<1> QED
  BY <1>1, PagesKeepTheirInvariants, PTL DEF PageSpec, WritesMatchWhatWasSeen
=============================================================================

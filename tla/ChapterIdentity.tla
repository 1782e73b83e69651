-------------------------- MODULE ChapterIdentity --------------------------
(***************************************************************************)
(* The upgrade of a project's chapter ids from v1 (locator keys, title     *)
(* hashes, template keys, other strings) to v2 (one UUID per chapter), by  *)
(* services/chapter-identity-migration-service.ts.  It rewrites            *)
(* proposal.meta.json, two sidecar files and the SQLite rows one after the *)
(* other; any step can fail, the application can die between two, and      *)
(* documentService.load, which only logs a failure, tries again.           *)
(*                                                                         *)
(* A chapter is a number.  A v1 reference to it is the form it was written *)
(* in: the same chapter in the same form is the same string, and different *)
(* chapters have different strings (locator key and title hash carry the   *)
(* occurrence of the title).                                               *)
(***************************************************************************)
EXTENDS Naturals

CONSTANTS IdChapters,          \* the number of chapters
          MaxMishaps           \* bound: failed steps and restarts

ASSUME IdentityAssumption == IdChapters \in Nat \ {0} /\ MaxMishaps \in Nat

Numbered == 1..IdChapters
IdForms == {"locator", "hash", "template", "opaque"}
References == [form : IdForms \cup {"none", "uuid"}, uuid : Nat]
InForm(f) == [form |-> f, uuid |-> 0]
AsUuid(u) == [form |-> "uuid", uuid |-> u]

\* The collections in proposal.meta.json that refer to chapters; then the
\* sidecars chapter-summaries.json and traceability-matrix.json, and SQLite.
MetaRefs == {"annotations", "skeletons", "attributions"}
RefStores == MetaRefs \cup {"summaries", "matrix", "sqlite"}
Written == RefStores \cup {"sectionIndex"}

\* LegacyIdMap: the UUID a chapter's legacy forms are bound to, 0 if none.
Maps == [Numbered -> [IdForms -> Nat]]
Unbound == [c \in Numbered |-> [f \in IdForms |-> 0]]

VARIABLES
  version,             \* chapterIdentitySchemaVersion
  entryId,             \* sectionIndex: a chapter's sectionId; "none": no index
  templateKey,         \* chapters whose entry has its templateSectionKey
  refs,                \* how each store refers to each chapter
  wrote,               \* history: the form each store was written in
  progress,            \* the migration progress file; Unbound: there is none
  legacyMap,           \* the map of the migration that runs
  migrating,           \* its next step, or "no"
  memoed,              \* memoedMigrations holds its result
  nextUuid,
  unscanned,           \* history: a map was made without the SQLite rows
  mishaps              \* what is left of the bound

identityVars == <<version, entryId, templateKey, refs, wrote, progress,
                  legacyMap, migrating, memoed, nextUuid, unscanned, mishaps>>

\* The forms of v1: summaries carry a locator key and source attributions a
\* sectionLocator, the matrix falls back to the title hash.
LegacyForms(s) ==
    CASE s \in {"summaries", "attributions"} -> {"locator"}
      [] s = "annotations" -> {"template", "opaque"}
      [] s = "skeletons" -> {"locator", "opaque"}
      [] s = "matrix" -> {"hash"}
      [] s = "sqlite" -> {"locator", "hash", "template", "opaque"}
      [] s = "sectionIndex" -> {"locator", "template", "opaque"}

\* A v1 project: each store refers to every chapter or to none, in one form.
IdentityInit ==
    /\ version = 1
    /\ wrote \in {w \in [Written -> IdForms \cup {"none"}] :
                    \A s \in Written : w[s] \in LegacyForms(s) \cup {"none"}}
    /\ entryId = [c \in Numbered |-> InForm(wrote["sectionIndex"])]
    /\ templateKey = {}
    /\ refs = [s \in RefStores |-> [c \in Numbered |-> InForm(wrote[s])]]
    /\ progress = Unbound /\ legacyMap = Unbound
    /\ migrating = "no" /\ memoed = FALSE
    /\ nextUuid = 1 /\ unscanned = FALSE
    /\ mishaps = MaxMishaps

-----------------------------------------------------------------------------
(* The two ways to a map.                                                  *)

Indexed == \E c \in Numbered : entryId[c].form # "none"

\* uuidv4(): one for each chapter and form, and none of them used before.
Fresh(c, f) ==
    nextUuid + 4 * (c - 1) + (CASE f = "locator" -> 0 [] f = "hash" -> 1
                                [] f = "template" -> 2 [] f = "opaque" -> 3)
Spent == nextUuid + 4 * IdChapters

\* migrateSectionIndex: the entry's own id, kept or minted, for its old id, its
\* locator key, its title hash and its templateSectionKey; then
\* remapConfirmedSkeletons mints ids for the keys that are left.
NewId(c) == IF entryId[c].form = "uuid" THEN entryId[c].uuid
            ELSE Fresh(c, "locator")
IndexMap ==
    [c \in Numbered |-> [f \in IdForms |->
        IF \/ f \in {"locator", "hash", entryId[c].form}
           \/ f = "template" /\ c \in templateKey THEN NewId(c)
        ELSE IF refs["skeletons"][c].form = f THEN Fresh(c, f)
        ELSE 0]]

\* resolveLegacyAliasMap, starting from the progress file: locator key and
\* title hash share one id when something shows the chapter's level, title and
\* occurrence; any other token that was seen gets its own.  SQLite is left out
\* when its scan fails.
Seen(c, scan) ==
    {refs[s][c].form : s \in RefStores \ (IF scan THEN {} ELSE {"sqlite"})}
        \cap IdForms
Canonical(c, scan) ==
    \/ "locator" \in Seen(c, scan)
    \/ \E s \in {"summaries", "attributions"} : refs[s][c].form # "none"
CanonicalId(c) ==
    IF progress[c]["locator"] # 0 THEN progress[c]["locator"]
    ELSE IF progress[c]["hash"] # 0 THEN progress[c]["hash"]
    ELSE Fresh(c, "locator")
AliasMap(scan) ==
    [c \in Numbered |-> [f \in IdForms |->
        IF progress[c][f] # 0 THEN progress[c][f]
        ELSE IF f \in {"locator", "hash"} /\ Canonical(c, scan)
        THEN CanonicalId(c)
        ELSE IF f \in Seen(c, scan) THEN Fresh(c, f)
        ELSE 0]]
NothingProbed(scan) ==
    \A c \in Numbered : Seen(c, scan) = {} /\ ~Canonical(c, scan)

\* A store rewritten with the map; an id that is not in it stays.
Rewritten(s) ==
    [c \in Numbered |->
        LET r == refs[s][c]
        IN  IF r.form \in IdForms /\ legacyMap[c][r.form] # 0
            THEN AsUuid(legacyMap[c][r.form]) ELSE r]
Rewrite(stores_) ==
    refs' = [s \in RefStores |-> IF s \in stores_ THEN Rewritten(s) ELSE refs[s]]

-----------------------------------------------------------------------------
(* The migration, one step for each write.                                 *)

\* ensureMigrated and the reads of performMigration.
Load ==
    /\ migrating = "no" /\ ~memoed
    /\ IF version = 2
       THEN /\ memoed' = TRUE
            /\ UNCHANGED <<legacyMap, migrating, nextUuid, unscanned, mishaps>>
       ELSE /\ UNCHANGED memoed
            /\ nextUuid' = Spent
            /\ \/ /\ Indexed
                  /\ legacyMap' = IndexMap
                  /\ migrating' = "meta"
                  /\ UNCHANGED <<unscanned, mishaps>>
               \/ \E scan \in BOOLEAN :
                    /\ ~Indexed
                    /\ scan \/ mishaps > 0
                    /\ mishaps' = IF scan THEN mishaps ELSE mishaps - 1
                    /\ unscanned' = (unscanned \/ ~scan)
                    /\ legacyMap' = AliasMap(scan)
                    /\ migrating' = IF NothingProbed(scan) /\ progress = Unbound
                                    THEN "empty" ELSE "progress"
    /\ UNCHANGED <<version, entryId, templateKey, refs, wrote, progress>>

\* Mutant: the marker is written with the new ids.
WriteMetaMutant ==
    /\ migrating = "meta"
    /\ migrating' = "summaries"
    /\ version' = 2
    /\ entryId' = [c \in Numbered |-> AsUuid(legacyMap[c]["locator"])]
    /\ templateKey' = templateKey \cup
                        {c \in Numbered : entryId[c].form = "template"}
    /\ Rewrite(MetaRefs)
    /\ UNCHANGED <<wrote, progress, legacyMap, memoed, nextUuid, unscanned,
                   mishaps>>

\* Indexed: proposal.meta.json with the new ids, and still without the marker.
WriteMeta ==
    /\ migrating = "meta"
    /\ migrating' = "summaries"
    /\ entryId' = [c \in Numbered |-> AsUuid(legacyMap[c]["locator"])]
    /\ templateKey' = templateKey \cup
                        {c \in Numbered : entryId[c].form = "template"}
    /\ Rewrite(MetaRefs)
    /\ UNCHANGED <<version, wrote, progress, legacyMap, memoed, nextUuid,
                   unscanned, mishaps>>

\* Mutant: the map is not kept.
WriteProgressMutant ==
    /\ migrating = "progress"
    /\ migrating' = "summaries"
    /\ UNCHANGED <<version, entryId, templateKey, refs, wrote, progress,
                   legacyMap, memoed, nextUuid, unscanned, mishaps>>

\* Not indexed: the map goes to disk before anything is rewritten.
WriteProgress ==
    /\ migrating = "progress"
    /\ migrating' = "summaries"
    /\ progress' = legacyMap
    /\ UNCHANGED <<version, entryId, templateKey, refs, wrote, legacyMap,
                   memoed, nextUuid, unscanned, mishaps>>

\* The sidecars and the SQLite transaction.
RewriteStore(s) ==
    /\ s \in {"summaries", "matrix", "sqlite"} /\ migrating = s
    /\ migrating' = CASE s = "summaries" -> "matrix"
                      [] s = "matrix" -> "sqlite"
                      [] s = "sqlite" -> IF Indexed THEN "stamp" ELSE "remap"
    /\ Rewrite({s})
    /\ UNCHANGED <<version, entryId, templateKey, wrote, progress, legacyMap,
                   memoed, nextUuid, unscanned, mishaps>>

Done == migrating' = "no" /\ memoed' = TRUE /\ legacyMap' = Unbound

\* Indexed: the marker comes last.
Stamp ==
    /\ migrating = "stamp"
    /\ version' = 2
    /\ Done
    /\ UNCHANGED <<entryId, templateKey, refs, wrote, progress, nextUuid,
                   unscanned, mishaps>>

\* Not indexed: new ids and marker in one write of proposal.meta.json ...
Remap ==
    /\ migrating = "remap"
    /\ migrating' = "drop"
    /\ version' = 2
    /\ Rewrite(MetaRefs)
    /\ UNCHANGED <<entryId, templateKey, wrote, progress, legacyMap, memoed,
                   nextUuid, unscanned, mishaps>>

\* ... then the progress file goes, or stays when that fails.
DropProgress ==
    /\ migrating = "drop"
    /\ Done
    /\ \/ progress' = Unbound /\ UNCHANGED mishaps
       \/ mishaps > 0 /\ mishaps' = mishaps - 1 /\ UNCHANGED progress
    /\ UNCHANGED <<version, entryId, templateKey, refs, wrote, nextUuid,
                   unscanned>>

\* stampSchemaVersion, for a project without any legacy id: a failed write is
\* swallowed.
StampEmpty ==
    /\ migrating = "empty"
    /\ Done
    /\ \/ version' = 2 /\ UNCHANGED mishaps
       \/ mishaps > 0 /\ mishaps' = mishaps - 1 /\ UNCHANGED version
    /\ UNCHANGED <<entryId, templateKey, refs, wrote, progress, nextUuid,
                   unscanned>>

\* Mutant: the memo keeps the failed migration.
StepThrowsMutant ==
    /\ migrating \notin {"no", "drop", "empty"} /\ mishaps > 0
    /\ mishaps' = mishaps - 1
    /\ migrating' = "no" /\ legacyMap' = Unbound
    /\ memoed' = TRUE
    /\ UNCHANGED <<version, entryId, templateKey, refs, wrote, progress,
                   nextUuid, unscanned>>

\* A step throws: the memo is dropped and the next load starts over.
StepThrows ==
    /\ migrating \notin {"no", "drop", "empty"} /\ mishaps > 0
    /\ mishaps' = mishaps - 1
    /\ migrating' = "no" /\ legacyMap' = Unbound
    /\ UNCHANGED <<version, entryId, templateKey, refs, wrote, progress,
                   memoed, nextUuid, unscanned>>

\* The application ends, at any moment, and is started again.
Restarted ==
    /\ migrating # "no" \/ memoed
    /\ mishaps > 0
    /\ mishaps' = mishaps - 1
    /\ migrating' = "no" /\ legacyMap' = Unbound
    /\ memoed' = FALSE
    /\ UNCHANGED <<version, entryId, templateKey, refs, wrote, progress,
                   nextUuid, unscanned>>

MigrationStep ==
    \/ WriteMeta \/ WriteProgress \/ Stamp \/ Remap \/ DropProgress
    \/ StampEmpty
    \/ \E s \in {"summaries", "matrix", "sqlite"} : RewriteStore(s)

IdentityNext == Load \/ MigrationStep \/ StepThrows \/ Restarted

\* A migration that started goes on, and projects are loaded again.
IdentityFairness == WF_identityVars(Load) /\ WF_identityVars(MigrationStep)

IdentitySpec == IdentityInit /\ [][IdentityNext]_identityVars /\ IdentityFairness

-----------------------------------------------------------------------------
(* Properties.                                                             *)

IdentityTypeOK ==
    /\ version \in {1, 2}
    /\ entryId \in [Numbered -> References]
    /\ templateKey \subseteq Numbered
    /\ refs \in [RefStores -> [Numbered -> References]]
    /\ wrote \in [Written -> IdForms \cup {"none"}]
    /\ progress \in Maps /\ legacyMap \in Maps
    /\ migrating \in {"no", "empty", "meta", "progress", "summaries", "matrix",
                      "sqlite", "stamp", "remap", "drop"}
    /\ memoed \in BOOLEAN /\ unscanned \in BOOLEAN
    /\ nextUuid \in Nat \ {0}
    /\ mishaps \in 0..MaxMishaps

\* References in one of the three forms the retry knows: locator key, title
\* hash, and template key where the sectionIndex is written in those.
Known(s) == \/ wrote[s] \in {"locator", "hash"}
            \/ wrote[s] = "template" /\ wrote["sectionIndex"] = "template"

\* The ids by which index entry and stores refer to a chapter.
UuidsOf(c) ==
    {r \in {entryId[c]} \cup {refs[s][c] : s \in RefStores} : r.form = "uuid"}

\* However often the migration is broken off and repeated, a chapter never has
\* two ids and no two chapters share one: all references to a chapter that were
\* written in a known form, in whatever store, and its index entry, carry the
\* same UUID, and no reference to another chapter, in whatever form, carries it.
OneIdPerChapter ==
    \A c \in Numbered :
        /\ \A s \in RefStores :
             Known(s) /\ refs[s][c].form = "uuid" =>
                /\ Indexed => refs[s][c] = entryId[c]
                /\ \A t \in RefStores :
                     Known(t) /\ refs[t][c].form = "uuid" =>
                        refs[t][c] = refs[s][c]
        /\ \A d \in Numbered \ {c} : UuidsOf(c) \cap UuidsOf(d) = {}

\* Once a project is marked v2, which ends all retries, no reference in a known
\* form is left as it was in any store, unless a scan of SQLite failed.
MarkedIsMigrated ==
    version = 2 =>
        \A s \in RefStores : \A c \in Numbered :
            Known(s) => \/ refs[s][c].form = "uuid"
                        \/ unscanned /\ s = "sqlite"

\* The migration is repeated until the project is marked.  A failed stamp is not
\* repeated in the session; then the project has no legacy reference (unless a
\* scan of SQLite failed).
MigrationEnds ==
    []<>(\/ version = 2
         \/ memoed /\ \A s \in RefStores : \A c \in Numbered :
              refs[s][c].form \notin IdForms \/ (unscanned /\ s = "sqlite"))
=============================================================================

----------------------------- MODULE LocalMemory -----------------------------
(***************************************************************************)
(* Component memory, .agents/memory.md (packages/local-brain/src/memory):  *)
(* the Markdown of parse.ts, the proposals of proposal.ts, propose() and   *)
(* save() of provider.ts, `brain remember` and `brain init` of the CLI.    *)
(*                                                                         *)
(* A document is a sequence of lines <<kind, value>>: "h1", "h2" with its  *)
(* section, "h3" with its title as it is written, "text", and "fence", a   *)
(* line that begins with a code fence. A fenced heading is a line like any *)
(* other to the parser, which counts the fences before it, and it reads    *)
(* some titles as others. The lines of an entry under its heading are one. *)
(* Blank lines, the size limits and the splitting of long entries are left *)
(* out; a hash stands for what it digests.                                 *)
(***************************************************************************)
EXTENDS Integers, Sequences, FiniteSets

CONSTANTS
  Sections, Titles, Bodies,
  AsRead,      \* titles without the # signs at their ends
  Fencing,     \* bodies whose first line begins a code block
  Similar,     \* pairs of titles that share most of their words
  Unsafe,      \* bodies the secret scanner rejects
  Writers,     \* calls that propose and save, and runs of brain init
  Template,    \* what brain init writes
  Edits,       \* what the engineer may save from an editor
  MaxDay,      \* bound: days that pass
  MaxLines,    \* bound: proposals are made for shorter documents
  Nothing

Lines(doc) == {doc[i] : i \in DOMAIN doc}

ASSUME MemoryConstants ==
  /\ AsRead \in [Titles -> Titles] /\ Similar \subseteq Titles \X Titles
  /\ Fencing \subseteq Bodies /\ Unsafe \subseteq Bodies
  /\ MaxDay \in Nat /\ MaxLines \in Nat
  /\ \A doc \in Edits \cup {Template} : doc \in Seq(Lines(doc))

VARIABLES
  file,      \* .agents/memory.md, Nothing if there is none
  day,       \* today
  call       \* the calls: where they are suspended and what they hold

memoryVars == <<file, day, call>>

-----------------------------------------------------------------------------
(* parse.ts *)

Kind(doc, i) == doc[i][1]
Fences(doc, i) == Cardinality({j \in 1 .. i - 1 : Kind(doc, j) = "fence"})
Headings(doc) ==
  {i \in DOMAIN doc : Kind(doc, i) \in {"h1", "h2", "h3"} /\ Fences(doc, i) % 2 = 0}

(* The first line after i with a property, or the end of the document.     *)
FirstAfter(doc, i, lines) ==
  CHOOSE j \in i + 1 .. Len(doc) + 1 :
    /\ j \in lines \cup {Len(doc) + 1}
    /\ \A k \in i + 1 .. j - 1 : k \notin lines

BodyOf(doc, i) == SubSeq(doc, i + 1, FirstAfter(doc, i, Headings(doc)) - 1)

SectionHeadings(doc) == {i \in Headings(doc) : Kind(doc, i) = "h2"}
Parents(doc, i) == {j \in SectionHeadings(doc) : j < i}

parseMemory(doc) ==
  /\ \E i \in Headings(doc) : Kind(doc, i) = "h1"
  /\ \A i, j \in SectionHeadings(doc) : doc[i] = doc[j] => i = j
  /\ \A i \in Headings(doc) : Kind(doc, i) = "h3" => Parents(doc, i) # {}
  /\ \E i \in Headings(doc) : Kind(doc, i) # "h1" /\ BodyOf(doc, i) # <<>>

(* The entries of a section: title, content and the line of the heading.   *)
sectionEntries(doc, section) ==
  {[title |-> AsRead[doc[i][2]], content |-> BodyOf(doc, i), line |-> i] :
     i \in {i \in Headings(doc) :
              /\ Kind(doc, i) = "h3" /\ BodyOf(doc, i) # <<>>
              /\ \E j \in Parents(doc, i) : /\ doc[j] = <<"h2", section>>
                                            /\ \A k \in Parents(doc, i) : k <= j}}

Entries(doc) == UNION {{<<s, e.title, e.content>> : e \in sectionEntries(doc, s)} :
                         s \in Sections}

-----------------------------------------------------------------------------
(* proposal.ts. Unlike the parser, these look at lines without fences.     *)

RawLines(doc, kinds) == {i \in DOMAIN doc : Kind(doc, i) \in kinds}
SectionLines(doc, section) == {i \in DOMAIN doc : doc[i] = <<"h2", section>>}

(* The title and the summary are written as they are proposed.             *)
renderEntry(title, body, addedOn) ==
  <<<<"h3", title>>, <<IF body \in Fencing THEN "fence" ELSE "text", <<body, addedOn>>>>>>

Spliced(doc, first, last, lines) ==
  SubSeq(doc, 1, first - 1) \o lines \o SubSeq(doc, last, Len(doc))

appendToSection(doc, section, entry) ==
  LET heading == FirstAfter(doc, 0, SectionLines(doc, section))
      insertAt == FirstAfter(doc, heading, RawLines(doc, {"h2"}))
  IN  Spliced(doc, insertAt, insertAt, entry)

MutantReplaceEntry(doc, line, entry) ==
  Spliced(doc, line, FirstAfter(doc, line, RawLines(doc, {"h2"})), entry)
replaceEntry(doc, line, entry) ==
  Spliced(doc, line, FirstAfter(doc, line, RawLines(doc, {"h2", "h3"})), entry)

(* A new entry is not added beside one that may say the same.              *)
MutantConflicts(entries, title) == \E e \in entries : <<e.title, title>> \in Similar
Conflicts(entries, title) ==
  \E e \in entries : e.title = title \/ <<e.title, title>> \in Similar

Proposal(doc, f, addedOn, action, next) ==
  [base |-> doc, section |-> f.section, title |-> f.title, body |-> f.body,
   action |-> action, next |-> next,
   entry |-> IF action \in {"add", "replace"} THEN renderEntry(f.title, f.body, addedOn)
             ELSE <<>>]

(* buildProposal, for a fact [section, title, body, replace] whose replace *)
(* names an entry by title and content.                                    *)
buildProposal(doc, f, addedOn) ==
  LET entry == renderEntry(f.title, f.body, addedOn)
      current == sectionEntries(doc, f.section)
      sameTitle == {e \in current : e.title = f.title}
      target == {e \in current : f.replace # Nothing /\ e.title = f.replace.title
                                 /\ e.content = f.replace.content}
      First == CHOOSE e \in target : \A o \in target : e.line <= o.line
      Built(action, next) == Proposal(doc, f, addedOn, action, next)
  IN  IF f.replace # Nothing
        THEN IF target = {} THEN Built("needs_resolution", Nothing)
             ELSE Built("replace", replaceEntry(doc, First.line, entry))
      ELSE IF \E e \in sameTitle : e.content = Tail(entry) THEN Built("no_change", Nothing)
      ELSE IF Conflicts(current, f.title) THEN Built("needs_resolution", Nothing)
      ELSE Built("add", appendToSection(doc, f.section, entry))

(* What makes buildProposal throw, before and after it has an action.      *)
Proposable(doc, f) == f.body \notin Unsafe /\ SectionLines(doc, f.section) # {}
KeepsMarkdown(p) == p.next # Nothing => parseMemory(p.next)

(* proposalId digests all of these but next, which the patch shows.        *)
SamePatch(p, q) == p = q

-----------------------------------------------------------------------------
(* provider.ts *)

IdleCall == [pc |-> "idle", proposal |-> Nothing, seen |-> Nothing]

MutantReadable == file # Nothing
Readable == file # Nothing /\ parseMemory(file)

(* The replacement target as the caller read it, if it wants to replace.   *)
Targets(doc, section) ==
  {Nothing} \cup {[title |-> e.title, content |-> e.content] :
                    e \in sectionEntries(doc, section)}

(* propose() answers with a proposal and changes nothing. Its read and its *)
(* answer are one step, since what it read is in the proposal.             *)
Propose(w) ==
  /\ call[w].pc = "idle"
  /\ Readable /\ Len(file) < MaxLines
  /\ \E s \in Sections, t \in Titles, b \in Bodies : \E r \in Targets(file, s) :
       LET f == [section |-> s, title |-> t, body |-> b, replace |-> r]
           p == buildProposal(file, f, day)
       IN  /\ Proposable(file, f)
           /\ KeepsMarkdown(p)
           /\ call' = [call EXCEPT ![w] = [IdleCall EXCEPT !.pc = "proposed", !.proposal = p]]
  /\ UNCHANGED <<file, day>>

(* save(), up to the end of its await of readFile.                         *)
SaveRead(w) ==
  /\ call[w].pc = "proposed"
  /\ Readable
  /\ call' = [call EXCEPT ![w].pc = "saving", ![w].seen = file]
  /\ UNCHANGED <<file, day>>

(* Mutant: every proposal is rebuilt as an addition.                      *)
MutantRebuilt(p, doc) ==
  buildProposal(doc, [section |-> p.section, title |-> p.title, body |-> p.body,
                      replace |-> Nothing], day)

(* What save() rebuilds from the file it read: the only entry with the     *)
(* title of the proposal is taken for the one to replace.                  *)
Rebuilt(p, doc) ==
  LET matching == {e \in sectionEntries(doc, p.section) : e.title = p.title}
      Target == CHOOSE e \in matching : TRUE
      replace == IF p.action = "replace" /\ Cardinality(matching) = 1
                   THEN [title |-> p.title, content |-> Target.content] ELSE Nothing
  IN  buildProposal(doc, [section |-> p.section, title |-> p.title, body |-> p.body,
                          replace |-> replace], day)

Safe(doc) == \A i \in DOMAIN doc :
               Kind(doc, i) \in {"text", "fence"} => doc[i][2][1] \notin Unsafe

Savable(w) ==
  LET p == call[w].proposal
      expected == Rebuilt(p, call[w].seen)
  IN  /\ p.base = call[w].seen
      /\ SamePatch(p, expected)
      /\ p.action \in {"add", "replace"}
      /\ Safe(expected.next)

(* The rest of save() runs without an await, down to the rename.           *)
SaveWrite(w) ==
  /\ call[w].pc = "saving"
  /\ Savable(w)
  /\ file' = Rebuilt(call[w].proposal, call[w].seen).next
  /\ call' = [call EXCEPT ![w].pc = "proposed", ![w].seen = Nothing]
  /\ UNCHANGED day

(* memory_changed, proposal_invalid, secret_rejected.                      *)
SaveRefused(w) ==
  /\ call[w].pc = "saving"
  /\ ~Savable(w)
  /\ call' = [call EXCEPT ![w].pc = "proposed", ![w].seen = Nothing]
  /\ UNCHANGED <<file, day>>

Forget(w) ==
  /\ call[w].pc = "proposed"
  /\ call' = [call EXCEPT ![w] = IdleCall]
  /\ UNCHANGED <<file, day>>

(* brain init looks for the file, and writes the template if it missed it. *)
InitLooks(w) ==
  /\ call[w].pc = "idle"
  /\ file = Nothing
  /\ call' = [call EXCEPT ![w].pc = "init"]
  /\ UNCHANGED <<file, day>>

InitWrites(w) ==
  /\ call[w].pc = "init"
  /\ file' = Template
  /\ call' = [call EXCEPT ![w] = IdleCall]
  /\ UNCHANGED day

-----------------------------------------------------------------------------
EditFile ==
  /\ file' \in Edits /\ file' # file
  /\ UNCHANGED <<day, call>>

NextDay ==
  /\ day < MaxDay
  /\ day' = day + 1
  /\ UNCHANGED <<file, call>>

MemoryInit ==
  /\ file \in {Nothing} \cup Edits
  /\ day = 0
  /\ call = [w \in Writers |-> IdleCall]

SaveStep(w) == SaveRead(w) \/ SaveWrite(w) \/ SaveRefused(w)

MemoryNext ==
  \/ EditFile \/ NextDay
  \/ \E w \in Writers : \/ Propose(w) \/ SaveStep(w) \/ Forget(w)
                        \/ InitLooks(w) \/ InitWrites(w)

MemorySpec == MemoryInit /\ [][MemoryNext]_memoryVars

-----------------------------------------------------------------------------
(* Each call is where the code can suspend it, and holds a proposal that   *)
(* was made for a document the parser accepts.                             *)
MemoryTypeOK ==
  /\ day \in 0 .. MaxDay
  /\ \A w \in Writers :
       /\ call[w].pc \in {"idle", "init", "proposed", "saving"}
       /\ (call[w].pc \in {"proposed", "saving"}) = (call[w].proposal # Nothing)
       /\ call[w].proposal # Nothing => parseMemory(call[w].proposal.base)
       /\ call[w].pc = "saving" => parseMemory(call[w].seen)

(* No heading is quoted inside a code block, and every block is closed.    *)
Plain(doc) ==
  /\ RawLines(doc, {"h1", "h2", "h3"}) = Headings(doc)
  /\ Fences(doc, Len(doc) + 1) % 2 = 0

(* The parser reads the entry of a proposal as it was proposed: its title  *)
(* does not end with a #, and its summary opens no code block. Otherwise   *)
(* an entry of the title that is read may be there already, and what comes *)
(* after the entry is no longer read.                                      *)
ReadsBack(p) == AsRead[p.title] = p.title /\ p.body \notin Fencing

(* A save leaves no two entries of a section with one title that were not  *)
(* there before, whatever was proposed, replaced, retitled or replayed, if *)
(* the new one reads back.                                                 *)
TitlesStayUnique ==
  [][\A w \in Writers :
       SaveWrite(w) /\ Plain(call[w].seen) /\ ReadsBack(call[w].proposal) =>
       \A s \in Sections : \A e, o \in sectionEntries(file', s) :
         e.title = o.title /\ e # o =>
           \E d, g \in sectionEntries(call[w].seen, s) : d.title = e.title /\ g.title = e.title
                                                        /\ d # g]_memoryVars

(* A save changes one entry of the file it read, if the new one reads      *)
(* back: that one is in its section, and of the others at most the one it  *)
(* replaces is gone.                                                       *)
OneEntryChanges ==
  [][\A w \in Writers :
       SaveWrite(w) /\ Plain(call[w].seen) /\ ReadsBack(call[w].proposal) =>
       LET p == call[w].proposal
           old == Entries(call[w].seen)
           gone == old \ Entries(file')
       IN  /\ Entries(file') = (old \ gone) \cup {<<p.section, p.title, Tail(p.entry)>>}
           /\ Cardinality(gone) <= (IF p.action = "replace" THEN 1 ELSE 0)]_memoryVars

(* A change that can still be made as it was shown: nothing has happened   *)
(* to the file and to the date, and an entry to be replaced keeps its      *)
(* title, which no other entry of its section has.                         *)
Replaceable(p, doc) ==
  \E e \in sectionEntries(doc, p.section) :
    /\ e.title = p.title /\ p.next = replaceEntry(doc, e.line, p.entry)
    /\ \A o \in sectionEntries(doc, p.section) : o.title = p.title => o = e

Fresh(p, doc) ==
  /\ p.base = doc
  /\ p.action = "add" \/ (p.action = "replace" /\ Replaceable(p, doc))
  /\ p.entry = renderEntry(p.title, p.body, day)
  /\ Safe(p.next)

(* Such a change is saved: save() does not keep what propose() computed    *)
(* but derives it again, the entry to replace from the title alone, and    *)
(* must come to the same proposal.                                         *)
FreshProposalsAreSaved ==
  [][\A w \in Writers :
       SaveRefused(w) => ~Fresh(call[w].proposal, call[w].seen)]_memoryVars

(* plans/2026-09-11-local-repository-brain.md:847-848: saving a proposal   *)
(* "is atomic and fails after a concurrent memory edit". So what a save    *)
(* replaces is the file it compared with its proposal.                     *)
SaveFailsAfterEdit ==
  [][\A w \in Writers : SaveWrite(w) => file = call[w].seen]_memoryVars
=============================================================================

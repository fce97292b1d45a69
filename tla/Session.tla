------------------------------ MODULE Session ------------------------------
(****************************************************************************)
(* The data that goes through a session: memories recalled at the start of  *)
(* a run, the calls an answer asks for, their results in the transcript and *)
(* in the payloads, and what /save, /load and --resume keep of it.  Which   *)
(* actions follow which is AgentLoop's matter; here a run is recall, then   *)
(* payload, answer and results in turn, and may break off anywhere.         *)
(****************************************************************************)
EXTENDS ProviderStream, ToolResultStore, Recall

CONSTANTS
    Sizes,      \* lengths of tool outputs (bound)
    Presets,    \* "default", "aggressive": records [inline, total, loop]
    KeepMicro,  \* MicroCompactor.keep_recent
    MaxInputs,  \* inputs in a session (bound)
    MaxCalls,   \* calls in a session (bound)
    MaxNamed,   \* names in a selector's answer (bound)
    Unknown,    \* a name in it that no entry has
    Unsaved     \* nothing has been saved

ASSUME SessionBounds ==
    /\ Sizes \subseteq Nat /\ {KeepMicro, MaxInputs, MaxCalls, MaxNamed} \subseteq Nat
    /\ Presets \subseteq [inline : Nat, total : Nat, loop : BOOLEAN]

VARIABLES
    pc,        \* where the run is
    preset,    \* the limits of the process, and whether the loop has the store too
    results,   \* the tool results in the transcript
    lastCall,  \* calls numbered so far
    store,     \* the store's decisions, and the files
    payload,   \* the results as the last payload showed them
    batch,     \* the calls of the last answer
    surfaced,  \* _already_surfaced_memories
    bytes,     \* _session_bytes_used
    slot,      \* what /save stored
    \* history, read by the properties only:
    inputs,    \* inputs so far
    asked,     \* what the service meant with the last answer
    recalled,  \* for each memory, the inputs of this process that attached it
    resumed    \* --resume has brought back a transcript

transcript == <<results, lastCall>>
recall     == <<surfaced, bytes, recalled>>
answer     == <<batch, asked>>
vars       == <<pc, preset, transcript, store, payload, answer, recall, slot, inputs, resumed>>

Shared  == 0   \* the id of every call that is not told apart
CallIds == 0..lastCall

Content == [of : 0..lastCall, wraps : Nat, size : Nat]
Result  == [call : 1..lastCall, id : CallIds, content : Content]

\* CLEARED_TOOL_RESULT_CONTENT, next to nothing in length
Cleared == [of |-> 0, wraps |-> 0, size |-> 0]

Empty == [decided |-> <<>>, disk |-> <<>>]

TypeOK ==
    /\ pc \in {"idle", "recall", "ask", "build", "call", "run"} /\ preset \in Presets
    /\ lastCall \in 0..MaxCalls /\ results \in Seq(Result)
    /\ slot = Unsaved \/ slot \in Seq(Result)
    /\ payload \in Seq(Result)
    /\ \A part \in {store.decided, store.disk} :
          DOMAIN part \subseteq CallIds /\ \A i \in DOMAIN part : part[i] \in Content
    /\ \A k \in DOMAIN batch : batch[k].id \in {Own, Reused}
    /\ surfaced \subseteq Memories /\ bytes \in Nat
    /\ inputs \in 0..MaxInputs /\ recalled \in [Memories -> SUBSET (1..MaxInputs)]
    /\ resumed \in BOOLEAN

Init ==
    /\ pc = "idle" /\ preset \in Presets
    /\ results = <<>> /\ lastCall = 0 /\ store = Empty /\ payload = <<>>
    /\ batch = <<>> /\ asked = None
    /\ surfaced = {} /\ bytes = 0 /\ recalled = [m \in Memories |-> {}]
    /\ slot = Unsaved /\ inputs = 0 /\ resumed = FALSE

Goto(stage) == pc' = stage

UserInput ==
    /\ pc = "idle" /\ inputs < MaxInputs /\ inputs' = inputs + 1 /\ Goto("recall")
    /\ UNCHANGED <<preset, transcript, store, payload, answer, recall, slot, resumed>>

-----------------------------------------------------------------------------
(* inject_memory_attachments *)

\* Recall is off, the input is one word, the budget is used up, or there is no entry.
RecallNothing ==
    /\ pc = "recall" /\ Goto("ask")
    /\ UNCHANGED <<preset, transcript, store, payload, answer, recall, slot, inputs, resumed>>

\* The memories at these places are attached and surfaced, one that could not be read too.
Surface(names, places) ==
    /\ surfaced' = surfaced \cup {names[k] : k \in places}
    /\ recalled' = [m \in Memories |->
                       recalled[m] \cup (IF \E k \in places : names[k] = m THEN {inputs} ELSE {})]

\* All of them, and their bytes are counted.
Attach(names, places) ==
    /\ Surface(names, places)
    /\ \E n \in Additions(Cardinality(places)) : bytes' = bytes + n

\* The entries there are change between runs: any of them may be there.
RecallSelects ==
    /\ pc = "recall" /\ bytes < Ceiling /\ Goto("ask")
    /\ \E headers \in (SUBSET Memories) \ {{}}, names \in BoundedSeq(Memories \cup {Unknown}, MaxNamed) :
          Attach(names, Selected(names, headers, surfaced))
    /\ UNCHANGED <<preset, transcript, store, payload, answer, slot, inputs, resumed>>

\* The selector raises SelectorError.
RecallFallsBack ==
    /\ pc = "recall" /\ bytes < Ceiling /\ Goto("ask")
    /\ \E headers \in (SUBSET Memories) \ {{}}, ranking \in SetToSeqs(Memories) :
          Attach(ranking, Fallback(ranking, headers, surfaced))
    /\ UNCHANGED <<preset, transcript, store, payload, answer, slot, inputs, resumed>>

Beginnings(places) == {some \in SUBSET places : \A k \in some, l \in places : l < k => l \in some}

\* ^C between two attachments or behind the last: the first of them are there and
\* surfaced, but the count of their bytes has not been returned.
RecallInterrupted ==
    /\ pc = "recall" /\ bytes < Ceiling /\ Goto("idle")
    /\ \E headers \in (SUBSET Memories) \ {{}} :
          \/ \E names \in BoundedSeq(Memories \cup {Unknown}, MaxNamed) :
                \E some \in Beginnings(Selected(names, headers, surfaced)) : Surface(names, some)
          \/ \E ranking \in SetToSeqs(Memories) :
                \E some \in Beginnings(Fallback(ranking, headers, surfaced)) : Surface(ranking, some)
    /\ UNCHANGED <<preset, transcript, store, payload, answer, bytes, slot, inputs, resumed>>

-----------------------------------------------------------------------------
(* Payload and answer *)

\* Any of the results that are not among the newest may be of a clearable tool.
Microcompact ==
    /\ pc = "ask" /\ Goto("build")
    /\ \E S \in SUBSET (1..(Len(results) - KeepMicro)) \ {{}} :
          results' = [k \in DOMAIN results |->
                         IF k \in S THEN [results[k] EXCEPT !.content = Cleared] ELSE results[k]]
    /\ UNCHANGED <<preset, lastCall, store, payload, answer, recall, slot, inputs, resumed>>

\* _process_tool_results: what the payload shows is not put into the transcript.
BuildPayload ==
    /\ pc \in {"ask", "build"} /\ Goto("call")
    /\ LET out == ProcessBatch(store, results, preset)
       IN  /\ store' = out.store
           /\ payload' = [k \in DOMAIN results |-> [results[k] EXCEPT !.content = out.served[k]]]
    /\ UNCHANGED <<preset, transcript, answer, recall, slot, inputs, resumed>>

\* An answer with calls, or one that ends the run.
Answer ==
    /\ pc = "call"
    /\ \E a \in Answers :
          /\ lastCall + Len(a.response.calls) <= MaxCalls
          /\ IF a.response.calls = <<>> THEN Goto("idle") /\ UNCHANGED answer
             ELSE Goto("run") /\ batch' = a.response.calls
                  /\ asked' = [sent |-> a.sent, sound |-> a.sound, cut |-> a.cut]
    /\ UNCHANGED <<preset, transcript, store, payload, recall, slot, inputs, resumed>>

\* Mutant: one new id for the calls of an answer.
IdOfAnswer(k) == IF batch[k].id = Own THEN lastCall + 1 ELSE Shared

IdOf(k) == IF batch[k].id = Own THEN lastCall + k ELSE Shared

\* _execute_one for each call: with a store of its own the loop replaces a large
\* output before it goes into the transcript.
RunBatch ==
    /\ pc = "run" /\ Goto("ask")
    /\ \E sizes \in [DOMAIN batch -> Sizes] :
          LET new == [k \in DOMAIN batch |->
                         [call |-> lastCall + k, id |-> IdOf(k),
                          content |-> [of |-> lastCall + k, wraps |-> 0, size |-> sizes[k]]]]
              out == PassOne(store, new, preset)
          IN  IF preset.loop
              THEN /\ store' = out.store
                   /\ results' = results \o [k \in DOMAIN new |-> [new[k] EXCEPT !.content = out.served[k]]]
              ELSE results' = results \o new /\ UNCHANGED store
    /\ lastCall' = lastCall + Len(batch)
    /\ batch' = <<>> /\ asked' = None
    /\ UNCHANGED <<preset, payload, recall, slot, inputs, resumed>>

\* Recall raises (an answer of the selector that is no list of names), the provider
\* raises, or ^C: nothing is taken back.
Breaks ==
    /\ pc # "idle" /\ Goto("idle") /\ batch' = <<>> /\ asked' = None
    /\ UNCHANGED <<preset, transcript, store, payload, recall, slot, inputs, resumed>>

-----------------------------------------------------------------------------
(* /save, /load, --resume *)

Save ==
    /\ pc = "idle" /\ slot # results /\ slot' = results
    /\ UNCHANGED <<pc, preset, transcript, store, payload, answer, recall, inputs, resumed>>

\* The store and what was surfaced stay those of the process.
Load ==
    /\ pc = "idle" /\ slot \notin {Unsaved, results} /\ results' = slot
    /\ UNCHANGED <<pc, preset, lastCall, store, payload, answer, recall, slot, inputs, resumed>>

\* A new process, which may be started with other limits; the files are there still.
Resume ==
    /\ pc = "idle" /\ slot # Unsaved /\ ~resumed /\ resumed' = TRUE
    /\ preset' \in Presets /\ results' = slot /\ payload' = <<>>
    /\ store' = [store EXCEPT !.decided = <<>>]
    /\ surfaced' = {} /\ bytes' = 0 /\ recalled' = [m \in Memories |-> {}]
    /\ UNCHANGED <<pc, lastCall, answer, slot, inputs>>

Next ==
    \/ UserInput \/ RecallNothing \/ RecallSelects \/ RecallFallsBack \/ RecallInterrupted
    \/ Microcompact \/ BuildPayload \/ Answer \/ RunBatch \/ Breaks
    \/ Save \/ Load \/ Resume

Spec == Init /\ [][Next]_vars

-----------------------------------------------------------------------------
(* Properties. *)

\* The calls that are run are calls the service made, in their order and each with
\* its own arguments, however the fragments were interleaved: all of them and whole,
\* and of an answer with a broken call none; of an answer cut at the length limit a
\* part, and of a call's arguments a part from their beginning.
RunsWhatWasSent ==
    pc = "run" =>
        \E place \in [DOMAIN batch -> DOMAIN asked.sent] :
           /\ \A k, l \in DOMAIN batch : k < l => place[k] < place[l]
           /\ \A k \in DOMAIN batch :
                 /\ batch[k].name = <<place[k]>>
                 /\ \E n \in 0..asked.sent[place[k]] :
                       batch[k].input = Part(place[k], n) /\ (~asked.cut => n = asked.sent[place[k]])
           /\ ~asked.cut => asked.sound /\ Len(batch) = Len(asked.sent)

IsInline(r) == r.content.wraps = 0 /\ r.content.of # 0

\* No payload shows more tool output than the limits of the process allow, per
\* result and in total; pointers and cleared results are not counted.
PayloadWithinLimits ==
    pc = "call" =>
        LET inline == {k \in DOMAIN payload : IsInline(payload[k])}
        IN  /\ \A k \in inline : payload[k].content.size <= preset.inline
            /\ Total(payload, inline) <= preset.total

\* A result whose id no other call has is shown as itself, as a pointer to itself or
\* as cleared, although decisions are kept by id and outlive the result's content.
ShowsOwnResult ==
    \A k \in DOMAIN payload : payload[k].id # Shared =>
        payload[k].content.of \in {payload[k].call, 0}

IsPointer(r) == r.id \in DOMAIN store.decided /\ r.content = store.decided[r.id]

\* A result that a process has shown as a pointer it shows as that very pointer ever
\* after (prompt caching rests on it), although microcompaction clears it, other
\* calls have its size or its id, and /load brings back older transcripts.
ServedStably ==
    [][resumed' = resumed =>
         \A k \in DOMAIN payload, l \in DOMAIN payload' :
            (payload[k].call = payload'[l].call /\ IsPointer(payload[k]))
               => payload'[l].content = payload[k].content]_vars

\* In the process that wrote it, a file that a pointer in a payload names has the
\* full result.
FilesKeepResults ==
    ~resumed => \A k \in DOMAIN payload :
        LET c == payload[k].content
        IN  c.wraps > 0 => /\ payload[k].id \in DOMAIN store.disk
                           /\ store.disk[payload[k].id].wraps = 0
                           /\ store.disk[payload[k].id].of = c.of

\* No memory is attached by two inputs of one process, whatever the selector names,
\* whether it fails, and where in the attaching the input is broken off.
RecalledOnce == \A m \in Memories : Cardinality(recalled[m]) <= 1

\* The ceiling is read before a run's attachments are added, so what is counted can
\* pass it by those of one run and no more.
RecallBounded == bytes < Ceiling + MaxAttached * MaxLength

\* "to avoid partial side effects": a call whose arguments were cut at the length
\* limit is not run with a part of them.  It is when the part ends in a brace.
NoCallRunsInPart ==
    pc = "run" => \A k \in DOMAIN batch :
        batch[k].input = <<>> \/
            \E c \in DOMAIN asked.sent : batch[k].input = Part(c, asked.sent[c])
=============================================================================

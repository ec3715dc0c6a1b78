------------------------ MODULE DemonstrationEvidence -----------------------
(***************************************************************************)
(* The commands that turn a recorded demonstration into evidence, over the *)
(* files of one directory: extract-video-evidence asks SAM3 for every      *)
(* prompt in every sampled frame, enrich-dense-tracking asks CoTracker for *)
(* the objects of the first frames, export-demonstration-bundle joins both *)
(* with the trace, refine-operation-structure asks for the operations.     *)
(* Either service fails and is asked again, every command may be given up  *)
(* between two files, and each reads what an earlier one left.             *)
(***************************************************************************)
EXTENDS VideoEvidence, OperationStructure

CONSTANTS
  Frames,            \* sampled of the video
  Scenes,            \* what may be seen: frame -> prompt -> detections
  Traces,            \* the windows of the segments, of one trace or another
  TrackAnswers(_),   \* what CoTracker may answer for a set of objects
  VideoTicks,        \* of the video, in ticks
  Structures,        \* what the model may answer, Refused if it is no structure
  MaxRetries,        \* of either client
  MaxFailures,       \* bound on failed requests
  MaxJobs            \* bound on commands

ASSUME FilesAssumption == Frames \in Nat \ {0} /\ {VideoTicks, MaxRetries, MaxFailures, MaxJobs} \subseteq Nat

(* A detection has a box in the image; of its mask is told what the code   *)
(* can: that there is none, that it fills the box, that it has hardly a    *)
(* pixel, or that it is no mask at all.                                    *)
Detection == [at : Nat, mask : {"none", "box", "few", "garbled"}]
ASSUME ScenesAssumption ==
  \A video \in Scenes : \A frame \in 1..Frames, prompt \in Range(Prompts) :
    video[frame][prompt] \in Seq(Detection)
ASSUME StructuresAssumption == Structures \subseteq OperationStructureResponse

VARIABLES
  scene,       \* the video
  trace,       \* trace.json
  evidence,    \* video_evidence.json
  artifact,    \* dense_track_frames.json.gz
  dense,       \* dense_video_evidence.json
  bundle,      \* the demonstration bundle
  structure,   \* operation_structure.json
  job,         \* the command that is running, and what it has in hand
  torn,        \* an enrichment ended between its files, and none since
  failures,    \* of requests
  jobsLeft     \* commands that may still be given

files == <<evidence, artifact, dense, bundle, structure>>
evidenceVars == <<scene, trace, files, job, torn, failures, jobsLeft>>

NoEvidence == [there |-> FALSE, observations |-> {}, errors |-> {}, tracks |-> {}, gaps |-> {}]
NoArtifact == [there |-> FALSE, objects |-> <<>>]
NoDense == [there |-> FALSE, objects |-> {}, links |-> {}, gaps |-> {}, claimed |-> FALSE]
NoBundle == [there |-> FALSE, objects |-> {}, quotes |-> <<>>, trace |-> <<>>, gaps |-> {}, claimed |-> FALSE]
NoStructure == [there |-> FALSE, given |-> Refused]
NoJob == [name |-> "none", keepGoing |-> FALSE, todo |-> <<>>, tries |-> 0, observations |-> {},
         errors |-> {}, tracks |-> <<>>]

EvidenceInit ==
  /\ scene \in Scenes /\ trace \in Traces
  /\ evidence = NoEvidence /\ artifact = NoArtifact /\ dense = NoDense
  /\ bundle = NoBundle /\ structure = NoStructure
  /\ job = NoJob /\ torn = FALSE /\ failures = 0 /\ jobsLeft = MaxJobs

TakeJob == job = NoJob /\ jobsLeft > 0 /\ jobsLeft' = jobsLeft - 1
Working(name) == job.name = name

-----------------------------------------------------------------------------
(* extract-video-evidence                                                  *)

(* Every prompt in every frame, frame by frame.                            *)
Requests == [i \in 1..(Frames * Len(Prompts)) |->
              << ((i - 1) \div Len(Prompts)) + 1, Prompts[((i - 1) % Len(Prompts)) + 1] >>]

StartExtract(keepGoing) ==
  /\ TakeJob
  /\ job' = [NoJob EXCEPT !.name = "extract", !.keepGoing = keepGoing, !.todo = Requests]
  /\ UNCHANGED <<scene, trace, files, torn, failures>>

Detected(frame, prompt) ==
  LET found == scene[frame][prompt]
  IN { [frame |-> frame, prompt |-> prompt, index |-> i, at |-> found[i].at, mask |-> found[i].mask]
       : i \in DOMAIN found }

(* Sam3Client.segment answers, and the masks are written: one that is no   *)
(* base64 raises where nothing is caught.                                  *)
GroundFrame ==
  /\ Working("extract") /\ job.todo # <<>>
  /\ LET found == Detected(Head(job.todo)[1], Head(job.todo)[2])
     IN job' = IF \E o \in found : o.mask = "garbled" THEN NoJob
               ELSE [job EXCEPT !.todo = Tail(@), !.tries = 0, !.observations = @ \cup found]
  /\ UNCHANGED <<scene, trace, files, torn, failures, jobsLeft>>

(* Whatever fails is tried again, a refusal as much as a timeout.          *)
GroundingFails ==
  /\ Working("extract") /\ job.todo # <<>>
  /\ failures < MaxFailures /\ failures' = failures + 1
  /\ job' =
       IF job.tries < MaxRetries THEN [job EXCEPT !.tries = @ + 1]
       ELSE IF job.keepGoing
       THEN [job EXCEPT !.todo = Tail(@), !.tries = 0, !.errors = @ \cup {Head(job.todo)}]
       ELSE NoJob
  /\ UNCHANGED <<scene, trace, files, torn, jobsLeft>>

(* _default_evidence_gaps, the two that depend on the run.                 *)
DefaultEvidenceGaps(errors) ==
  {"dense_temporal_tracking"} \cup (IF errors # {} THEN {"complete_grounding_observations"} ELSE {})

WriteEvidence ==
  /\ Working("extract") /\ job.todo = <<>>
  /\ evidence' = [there |-> TRUE, observations |-> job.observations, errors |-> job.errors,
                  tracks |-> LinkDetectionTracklets(job.observations, Frames),
                  gaps |-> DefaultEvidenceGaps(job.errors)]
  /\ job' = NoJob
  /\ UNCHANGED <<scene, trace, artifact, dense, bundle, structure, torn, failures, jobsLeft>>

-----------------------------------------------------------------------------
(* enrich-dense-tracking                                                   *)

StartEnrich ==
  /\ TakeJob
  /\ job' = IF evidence.there /\ Queried(evidence.observations) # {}
            THEN [NoJob EXCEPT !.name = "enrich"] ELSE NoJob
  /\ UNCHANGED <<scene, trace, files, torn, failures>>

(* CoTrackerClient.track_points gives up at once on what is not transient. *)
TrackingFails(transient) ==
  /\ Working("enrich") /\ failures < MaxFailures /\ failures' = failures + 1
  /\ job' = IF transient /\ job.tries < MaxRetries
            THEN [job EXCEPT !.tries = @ + 1] ELSE NoJob
  /\ UNCHANGED <<scene, trace, files, torn, jobsLeft>>

(* The two archives are written before dense_video_evidence.json.          *)
KeepArtifact(centres) == IF artifact.there THEN artifact ELSE [there |-> TRUE, objects |-> centres]
WrittenArtifact(centres) == [there |-> TRUE, objects |-> centres]

(* summarize_dense_tracks: every frame of what was asked for has a place   *)
(* and a count, or the command ends where one is looked up.                *)
Readable(tracks, objects) ==
  /\ DOMAIN tracks \subseteq objects
  /\ \A object \in DOMAIN tracks : tracks[object] \in Seq([at : Nat, seen : 0..Points]) \ {<<>>}

WriteArtifacts ==
  /\ Working("enrich")
  /\ \E tracks \in TrackAnswers(Queried(evidence.observations)) :
       /\ Readable(tracks, Queried(evidence.observations))
       /\ artifact' = WrittenArtifact(DenseFrames(tracks))
       /\ job' = [NoJob EXCEPT !.name = "enriching", !.tracks = DenseFrames(tracks)]
  /\ torn' = TRUE
  /\ UNCHANGED <<scene, trace, evidence, dense, bundle, structure, failures, jobsLeft>>

UpdatedEvidenceGaps(gaps) == (gaps \ {"dense_temporal_tracking"}) \cup {"dense_mask_tracking"}

WriteDense ==
  /\ Working("enriching")
  /\ dense' = [there |-> TRUE, claimed |-> TRUE, gaps |-> UpdatedEvidenceGaps(evidence.gaps),
               objects |-> { Summary(object, job.tracks[object]) : object \in DOMAIN job.tracks },
               links |-> AssociateSparseObservations(evidence.observations, Frames, job.tracks)]
  /\ job' = NoJob /\ torn' = FALSE
  /\ UNCHANGED <<scene, trace, evidence, artifact, bundle, structure, failures, jobsLeft>>

-----------------------------------------------------------------------------
(* export-demonstration-bundle and refine-operation-structure              *)

(* _segment_evidence: what the frames of the window show of each object    *)
(* the evidence has.                                                       *)
SegmentEvidence(window, objects, centres) ==
  { [object |-> object,
     samples |-> DOMAIN centres[object] \cap (window[1]..window[2]),
     visible |-> { f \in DOMAIN centres[object] \cap (window[1]..window[2]) : centres[object][f] # Hidden }]
    : object \in { o \in objects \cap DOMAIN centres :
                     DOMAIN centres[o] \cap (window[1]..window[2]) # {} } }

ExportBundle ==
  /\ TakeJob /\ dense.there
  /\ LET objects == { summary.object : summary \in dense.objects }
     IN bundle' = [there |-> TRUE, objects |-> dense.objects, trace |-> trace,
                   quotes |-> [i \in DOMAIN trace |-> SegmentEvidence(trace[i], objects, artifact.objects)],
                   gaps |-> dense.gaps, claimed |-> dense.claimed]
  /\ UNCHANGED <<scene, trace, evidence, artifact, dense, structure, job, torn, failures>>

(* evidence_guided is refused without a bundle.                            *)
StartStructure(guided) ==
  /\ TakeJob
  /\ job' = IF guided /\ ~bundle.there THEN NoJob ELSE [NoJob EXCEPT !.name = "structure"]
  /\ UNCHANGED <<scene, trace, files, torn, failures>>

WriteStructure ==
  /\ Working("structure")
  /\ \E answer \in Structures :
       LET given == NormalizeStructure(answer, VideoTicks)
       IN structure' = IF given = Refused THEN structure ELSE [there |-> TRUE, given |-> given]
  /\ job' = NoJob
  /\ UNCHANGED <<scene, trace, evidence, artifact, dense, bundle, torn, failures, jobsLeft>>

-----------------------------------------------------------------------------
(* The trace is refined, or segmented again, between two commands.         *)
Resegment ==
  /\ TakeJob
  /\ trace' \in Traces
  /\ UNCHANGED <<scene, files, job, torn, failures>>

(* A command is given up; what it wrote stays.                             *)
GiveUpJob ==
  /\ job # NoJob /\ job' = NoJob
  /\ UNCHANGED <<scene, trace, files, torn, failures, jobsLeft>>

EvidenceNext ==
  \/ \E keepGoing \in BOOLEAN : StartExtract(keepGoing)
  \/ GroundFrame \/ GroundingFails \/ WriteEvidence
  \/ StartEnrich \/ (\E transient \in BOOLEAN : TrackingFails(transient))
  \/ WriteArtifacts \/ WriteDense
  \/ ExportBundle
  \/ (\E guided \in BOOLEAN : StartStructure(guided)) \/ WriteStructure
  \/ Resegment \/ GiveUpJob

EvidenceSpec == EvidenceInit /\ [][EvidenceNext]_evidenceVars

-----------------------------------------------------------------------------
(* The tracklets of an evidence file share out its observations; each      *)
(* follows one prompt forward in time, never over more than MaxGap frames, *)
(* and never to where its object cannot have moved.                        *)
TrackletsShareOut ==
  /\ \A o \in evidence.observations :
       Cardinality({ track \in evidence.tracks : o \in Range(track.observations) }) = 1
  /\ \A track \in evidence.tracks : \A n \in 1..(Len(track.observations) - 1) :
       LET a == track.observations[n]
           b == track.observations[n + 1]
       IN /\ a.prompt = b.prompt /\ a.frame < b.frame /\ b.frame - a.frame <= MaxGap
          /\ Associable(Distance(a.at, b.at))

(* What is found in one frame under one prompt are different things: no    *)
(* two are linked to one object, nor one to two, nor any to an object of   *)
(* another prompt.                                                         *)
LinksAreOneToOne ==
  /\ \A link \in dense.links : link.object.prompt = link.observation.prompt
  /\ \A p, q \in dense.links : p # q =>
       /\ p.observation # q.observation
       /\ p.object = q.object => p.observation.frame # q.observation.frame

(* A bundle says two things of each object, from two files: where it was   *)
(* out of sight, and in how many frames of each segment it was seen.  They *)
(* agree, unless an enrichment was given up between the two files.         *)
QuotesAgree ==
  bundle.there =>
    \A i \in DOMAIN bundle.quotes : \A quote \in bundle.quotes[i], summary \in bundle.objects :
      quote.object = summary.object =>
        quote.visible = { f \in quote.samples :
          \A interval \in summary.occlusions : f \notin interval[1]..interval[2] }
QuotesAgreeUnlessTorn == [][ExportBundle /\ ~torn => QuotesAgree']_evidenceVars

(* An operation structure can be followed: every instance is of a          *)
(* procedure that is there, its phases run inside it as they are written,  *)
(* it ran inside the video, and the order names instances and as many as   *)
(* there are.  Rounding keeps windows in each other and may empty one, and *)
(* the last may end with the millisecond the video ends in.                *)
StructureIsClosed ==
  LET given == structure.given IN
  /\ \A i \in DOMAIN given.instances :
       LET instance == given.instances[i] IN
       /\ \E p \in Range(given.procedures) : p.id = instance.ref
       /\ 0 <= instance.from /\ instance.from <= instance.to /\ instance.to <= Rounded(VideoTicks)
       /\ \A phase \in Range(instance.phases) :
            instance.from <= phase.from /\ phase.from <= phase.to /\ phase.to <= instance.to
  /\ \A i, j \in DOMAIN given.instances : i # j => given.instances[i].id # given.instances[j].id
  /\ Range(given.sequence) \subseteq { instance.id : instance \in Range(given.instances) }
  /\ Len(given.sequence) = Len(given.instances)
=============================================================================

---------------------------- MODULE VideoEvidence ---------------------------
(***************************************************************************)
(* What robot_subtask_seg computes of the objects in a demonstration: the  *)
(* tracklets that link grounded detections, the objects that are tracked,  *)
(* the summary of their dense tracks and the sparse observations that      *)
(* belong to them.  Boxes are of one size on a line; a frame is sampled    *)
(* every unit of time.                                                     *)
(***************************************************************************)
EXTENDS Integers, Sequences, FiniteSets, SequencesExt, FiniteSetsExt

CONSTANTS
  Prompts,      \* in sorted order, and apart under _safe_name
  Width,        \* of a box
  LinkReach,    \* how far a centre may move between two linked detections
  MatchReach,   \* how far from a tracked centre a detection may be
  MaxGap,       \* frames over which a tracklet is taken up again
  Points,       \* queried per object
  MinVisible    \* per cent of them that make a frame reliable

ASSUME EvidenceAssumption ==
  /\ Prompts \in Seq(STRING) /\ IsInjective(Prompts)
  /\ Width \in Nat \ {0} /\ LinkReach \in Nat /\ MatchReach \in Nat /\ Width <= 2 * MatchReach
  /\ MaxGap \in Nat \ {0} /\ Points \in Nat \ (0..3) /\ MinVisible \in 0..100

(* An observation: its frame, prompt, number among the detections of both, *)
(* centre, and mask: none, one of the box, or one of a few pixels.         *)
Distance(a, b) == IF a < b THEN b - a ELSE a - b
Of(observations, prompt) == { o \in observations : o.prompt = prompt }
At(observations, frame) == { o \in observations : o.frame = frame }

-----------------------------------------------------------------------------
(* link_detection_tracklets                                                *)

(* _association_score is not None: an overlap of a twentieth, or near.     *)
Associable(distance) == distance <= LinkReach \/ 21 * distance <= 19 * Width

Closer(p, q) ==
  \/ p.distance < q.distance
  \/ p.distance = q.distance /\ (p.a > q.a \/ (p.a = q.a /\ p.b > q.b))

(* What covers the other's mask more; two detections are told by distance. *)
Better(p, q) == p.cover > q.cover \/ (p.cover = q.cover /\ Closer(p, q))

(* Pairs taken one after the other, best first, each end once: the only    *)
(* one-to-one choice in which whatever is left out met something better.   *)
OneToOne(chosen) == \A p, q \in chosen : p # q => p.a # q.a /\ p.b # q.b
Greedily(chosen, pairs) ==
  /\ OneToOne(chosen)
  /\ \A p \in pairs \ chosen : \E q \in chosen : (q.a = p.a \/ q.b = p.b) /\ Better(q, p)
Greedy(pairs) == CHOOSE chosen \in SUBSET pairs : Greedily(chosen, pairs)

LastSeen(track) == Last(track.observations)
Alive(track, frame) == frame - LastSeen(track).frame <= MaxGap

AnyPair(active, found, frame) ==
  { p \in { [a |-> track.number, b |-> o.index, cover |-> 0, distance |-> Distance(LastSeen(track).at, o.at)] :
              track \in active, o \in found } : Associable(p.distance) }
Pairs(active, found, frame) == AnyPair({ track \in active : Alive(track, frame) }, found, frame)

(* The body of its loop for the detections of one frame: a track goes on   *)
(* with the detection it is paired with, the others begin one each.        *)
GoesOn(track, chosen, found) ==
  IF \E p \in chosen : p.a = track.number
  THEN [track EXCEPT !.observations =
         Append(@, CHOOSE o \in found : \E p \in chosen : p.a = track.number /\ p.b = o.index)]
  ELSE track
Begun(o, fresh, next) ==
  [prompt |-> o.prompt, number |-> next + Cardinality({ q \in fresh : q.index <= o.index }),
   observations |-> <<o>>]

LinkFrame(state, found, frame) ==
  LET chosen == Greedy(Pairs(state.active, found, frame))
      taken  == { GoesOn(track, chosen, found) : track \in state.active }
      fresh  == { o \in found : ~\E p \in chosen : p.b = o.index }
  IN [active    |-> { track \in taken : Alive(track, frame) } \cup { Begun(o, fresh, state.next) : o \in fresh },
      completed |-> state.completed \cup { track \in taken : ~Alive(track, frame) },
      next      |-> state.next + Cardinality(fresh)]

NoTracks == [active |-> {}, completed |-> {}, next |-> 0]
LinkPrompt(observations, frames) ==
  LET linked[f \in 0..frames] ==
        IF f = 0 THEN NoTracks
        ELSE IF At(observations, f) = {} THEN linked[f - 1]
        ELSE LinkFrame(linked[f - 1], At(observations, f), f)
      all == linked[frames]
  IN all.completed \cup all.active

LinkDetectionTracklets(observations, frames) ==
  UNION { LinkPrompt(Of(observations, prompt), frames) : prompt \in Range(Prompts) }

-----------------------------------------------------------------------------
(* Dense tracking.                                                         *)

(* select_anchor_objects: a prompt's objects are those of the first frame  *)
(* it is found in, from left to right.                                     *)
LeftOf(o, first) == { q \in first : q.at < o.at \/ (q.at = o.at /\ q.index <= o.index) }
FirstFound(own) == { o \in own : \A q \in own : o.frame <= q.frame }
AnchorsOf(first) ==
  { [prompt |-> o.prompt, number |-> Cardinality(LeftOf(o, first)), anchor |-> o] : o \in first }
SelectAnchorObjects(observations) ==
  UNION { AnchorsOf(FirstFound(Of(observations, prompt))) : prompt \in Range(Prompts) }

(* sample_anchor_points finds four points or the object is passed over.    *)
SampledPoints(observation) == IF observation.mask = "few" THEN 3 ELSE Points
Queried(observations) ==
  { object \in SelectAnchorObjects(observations) : SampledPoints(object.anchor) >= 4 }

(* summarize_dense_tracks: a frame of a track is a centre and the number   *)
(* of points seen; where it is not reliable there is no centre.            *)
Hidden == -1
Reliable(sample) == sample.seen >= 2 /\ 100 * sample.seen >= MinVisible * Points
DenseFrames(tracks) ==
  [object \in DOMAIN tracks |->
    [f \in DOMAIN tracks[object] |-> IF Reliable(tracks[object][f]) THEN tracks[object][f].at ELSE Hidden]]

(* _occlusion_intervals: the longest stretches without a centre.           *)
OcclusionIntervals(centres) ==
  { interval \in (DOMAIN centres) \X (DOMAIN centres) :
      /\ interval[1] <= interval[2]
      /\ \A f \in interval[1]..interval[2] : centres[f] = Hidden
      /\ \A f \in {interval[1] - 1, interval[2] + 1} \cap DOMAIN centres : centres[f] # Hidden }

Summary(object, centres) ==
  [object |-> object, occlusions |-> OcclusionIntervals(centres),
   reliable |-> Cardinality({ f \in DOMAIN centres : centres[f] # Hidden })]

(* associate_sparse_observations.  The nearest frame of a video that was   *)
(* cut short is its last one, however late the observation.                *)
NearestIndex(centres, frame) == Min({frame, Len(centres)})
Inside(centre, observation) == 2 * Distance(centre, observation.at) <= Width

(* _observation_match_score, its leading term.                             *)
Cover(centre, observation) ==
  IF ~Inside(centre, observation) THEN 0 ELSE IF observation.mask = "box" THEN 2 ELSE 1

MatchPair(o, object, centre) ==
  [a |-> o.index, b |-> object.number, cover |-> Cover(centre, o), distance |-> Distance(centre, o.at),
   observation |-> o, object |-> object]
CentreAt(centres, frame) == centres[NearestIndex(centres, frame)]
Matching(o, object, centre) ==
  /\ object.prompt = o.prompt
  /\ centre # Hidden
  /\ Inside(centre, o) \/ Distance(centre, o.at) <= MatchReach
MatchPairs(found, dense) ==
  UNION { { MatchPair(o, object, CentreAt(dense[object], o.frame)) :
              object \in { each \in DOMAIN dense : Matching(o, each, CentreAt(dense[each], o.frame)) } }
          : o \in found }

BestEach(found, dense) ==
  { p \in MatchPairs(found, dense) :
      \A q \in MatchPairs(found, dense) : q # p /\ q.a = p.a => Better(p, q) }
Matched(found, dense) == Greedy(MatchPairs(found, dense))

AssociateSparseObservations(observations, frames, dense) ==
  UNION { { [observation |-> p.observation, object |-> p.object] : p \in Matched(At(Of(observations, prompt), f), dense) }
          : f \in 1..frames, prompt \in Range(Prompts) }
=============================================================================

-------------------------- MODULE MCSegmentDispatch --------------------------
(***************************************************************************)
(* The instance of SegmentDispatch for TLC has the deployed number of      *)
(* segments, every number of datastores, and files of up to twice as many  *)
(* bytes as there are segments, so that segments are empty, of one byte    *)
(* and of two, with every remainder.                                       *)
(***************************************************************************)
EXTENDS SegmentDispatch

DeployedSegments == 13
TwiceTheSegments == 2 * DeployedSegments
==============================================================================

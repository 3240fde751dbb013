---------------------------- MODULE MCSubmission ----------------------------
(* Two submissions, every call may raise, and one change of the project or *)
(* the workspace besides the shutdown.                                     *)
EXTENDS Submission

===============================================================================

-------------------------- MODULE MCPendingJobWebview --------------------------
(* Model-checking instance of the refresher composed with the webview.     *)
EXTENDS PendingJobWebview, TLC

\* the job belongs to the pipeline of one of the two branches; Init puts
\* HEAD on either
MCJobBranch == CHOOSE b \in Branches : TRUE

=============================================================================

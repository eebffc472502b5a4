------------------------------ MODULE MCPipeline ------------------------------
EXTENDS Pipeline

\* An approval, a refusal that also approves in its text; no verdict, GO, NO-GO.
MCReviewAnswers == {{"APPROVE"}, {"APPROVE", "REQUEST-CHANGES"}}
MCReleaseAnswers == {{}, {"GO"}, {"GO", "NO-GO"}}
===============================================================================

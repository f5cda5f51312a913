-------------------------------- MODULE MCFleet --------------------------------
\* Two instances. Plan.cfg: no agents, every step of the plan, two games; a run may
\* find Reddit's API refusing, and neither the pages of itch nor the first feed of
\* Reddit. Fleet.cfg: two agents of one workflow, while the plan stands still.
EXTENDS Fleet

MCWorkflowOf == [a \in Agents |-> "f"]
MCBlindness ==
    {{}, {"about", "comments_json", "submitted_json",
          "itch_page", "itch_api", "comments_rss"}}
==============================================================================

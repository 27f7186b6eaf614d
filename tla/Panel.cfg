\* Three projects that come and go, any keys, and refreshes that keep coming.
CONSTANTS
    Projects = {p1, p2, p3}
    NoProject = NoProject
CHECK_DEADLOCK FALSE
SPECIFICATION FairSpec
INVARIANTS FocusFollowsField
PROPERTIES OnlyReviewMisplaces PanelFollows

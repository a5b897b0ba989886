\* Two sessions, one POST of a name and two POSTs of comments.
CONSTANTS
    s1 = s1
    s2 = s2
    n1 = n1
    c1 = c1
    c2 = c2
    NoSession = NoSession
    Sessions <- MCSessions
    NamePosts <- MCNamePosts
    CommentPosts <- MCCommentPosts
SYMMETRY MCSymmetry
SPECIFICATION Spec
INVARIANTS
    TypeOK
    OldTokenRefused
    WritesAreEntitled
    ForbiddenIsExplained
    AnswersAreExplained
    CommentsKept
PROPERTY
    DeletedStaysDead
CHECK_DEADLOCK FALSE

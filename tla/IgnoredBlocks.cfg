SPECIFICATION FairSpec
CONSTANT Scripts = {"IgnoredInTheWay"}
PROPERTY Completes

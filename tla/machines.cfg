SPECIFICATION Spec
CONSTANTS
    Zones <- MCZones
    Number <- MCNumber
    BasicAZs <- MCBasicAZs
    Texts <- MCTexts
    Profiles <- MCProfiles
INVARIANTS ZonesAreRight ImageFitsAll TemplateIsSound PullSecretIsRight

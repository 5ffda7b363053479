SPECIFICATION Spec
CONSTANTS
    TagWidth = 3
    HtmlSources <- MCHtml
    XdxfSources <- MCXdxf
    PowerwordSources <- MCPowerword
    WikiSources <- MCWiki
    WikiTexts <- MCTexts
INVARIANTS
    LinksInPlace
    MarkupSound
    WikiSound
CHECK_DEADLOCK FALSE
